---- MODULE Spec2Model ----
(***************************************************************************)
(* NovaCrypt market-data ingestion core.                                   *)
(*                                                                         *)
(* The model follows src/src/data/MarketDataPipeline.cpp (the pipeline:    *)
(* start/stop, the three push operations, the background processLoop and   *)
(* its two bounded queues) and src/src/data/DataQualityMetrics.cpp (the    *)
(* per-source quality tracker).                                            *)
(*                                                                         *)
(* Threads: controller threads call start()/stop()/setMaxQueueSize()/the   *)
(* callback setters, producer threads call the push operations, worker     *)
(* threads run processLoop.  Every access to shared memory that the code   *)
(* does outside a mutex is a step of its own, so that the interleavings    *)
(* the code allows are the interleavings of the model.  The three pipeline *)
(* mutexes a caller can block on (marketDataMutex_, orderBookMutex_,       *)
(* dataMutex_) are explicit; a DataQualityTracker method holds             *)
(* metricsMutex_ for its whole body and calls nothing outside, so each     *)
(* tracker call is one atomic step.                                        *)
(*                                                                         *)
(* Numbers: prices, volumes and latencies are integers; a confidence is an *)
(* integer number of hundredths (0.95 is 95).                              *)
(***************************************************************************)
EXTENDS Integers, Sequences, FiniteSets, TLC

(***************************************************************************)
(* Bounds of the model.                                                    *)
(***************************************************************************)
\* Worker threads that can ever be spawned.
MaxWorkers == 2
\* Stand-in for the default queue capacity (1000) and the largest capacity
\* setMaxQueueSize is called with.
MaxQueue == 2
\* Stand-in for the tracker's default historySize (1000).
HistorySize == 2
\* Cap on the data points the tracker records over all market sources, which
\* bounds the pushMarketData/pushOrderBook calls of a behaviour.
MaxPushes == 3
\* Cap on the stored sentiment observations per source.
MaxSent == 1
\* Stand-in for the look-back period of the moving averages (20, 50, 200).
IndicatorPeriod == 2

\* The number of updates fed to an indicator object on its own.
MaxUpdates == 5

(***************************************************************************)
(* Program constants.                                                      *)
(***************************************************************************)
\* checkDataFreshness: age.count() <= 60.
FreshnessSeconds == 60
\* processMarketData / processOrderBook: confidence >= 0.95.
PriceAccuracyThreshold == 95
\* processMarketData: confidence >= 0.90.
VolumeAccuracyThreshold == 90

Workers == 1..MaxWorkers
\* The threads that call start() and stop().
Controllers == {"c1", "c2"}
\* The threads that call the push operations.
Producers == {"p1", "p2"}

\* Thread identities, as the owners of a mutex.
Free == <<"free", 0>>
W(w) == <<"worker", w>>
P(p) == <<"producer", p>>
\* The thread that reads snapshots and quality reports.
Reader == <<"reader", 0>>

NoWorker == 0

(***************************************************************************)
(* Inputs.                                                                 *)
(***************************************************************************)
MarketSources == {"Binance", "Coinbase"}
SentimentSources == {"Twitter", "Reddit", "News"}
\* Every string a caller names as a source.
Sources == MarketSources \cup SentimentSources

\* MarketDataUpdate as MarketDataPipeline.cpp uses it: an OHLCV, a timestamp
\* (given here as the age now - timestamp in milliseconds at the time of the
\* call), a source and a confidence.
Tick(o, h, l, c, v, age, src, conf) ==
    [open |-> o, high |-> h, low |-> l, close |-> c, volume |-> v,
     ageMs |-> age, source |-> src, confidence |-> conf]

Level(p, q) == [price |-> p, quantity |-> q]

Book(b, a, age, src, conf) ==
    [bids |-> b, asks |-> a, ageMs |-> age, source |-> src, confidence |-> conf]

\* The ticks the producers push: two valid ones, a stale one, one with a
\* non-positive price.
TickA == Tick(100, 100, 100, 100, 1, 1000, "Binance", 99)
TickB == Tick(101, 101, 101, 101, 1, 59000, "Binance", 92)
TickStale == Tick(100, 100, 100, 100, 1, 61000, "Binance", 99)
TickNoPrice == Tick(0, 0, 0, 0, 1, 1000, "Coinbase", 99)
Ticks == {TickA, TickB, TickStale, TickNoPrice}

\* The order books the producers push: a valid one and a crossed one.
BookA == Book(<<Level(100, 1), Level(99, 1)>>, <<Level(101, 1), Level(102, 1)>>,
              1000, "Coinbase", 99)
BookCrossed == Book(<<Level(100, 1)>>, <<Level(99, 1)>>, 1000, "Coinbase", 99)
Books == {BookA, BookCrossed}

\* Ticks at the limits of validateMarketData: a valid tick with its age, its
\* prices, its volume and its confidence varied one at a time.  An age
\* below 0 is a timestamp later than the current time.
ValidationTicks ==
    { Tick(100, 100, 100, 100, 1, age, "Binance", 99) :
          age \in {-1000, 59000, 60000, 60500, 61000} }
    \cup { Tick(q[1], q[2], q[3], q[4], 1, 1000, "Binance", 99) :
               q \in { <<100, 101, 99, 100>>, <<0, 100, 100, 100>>,
                       <<100, 100, 100, 0>>, <<100, 99, 100, 100>>,
                       <<101, 100, 99, 100>>, <<100, 101, 100, 99>> } }
    \cup { Tick(100, 100, 100, 100, v, 1000, "Coinbase", 99) : v \in {-1, 0} }
    \cup { Tick(100, 100, 100, 100, 1, 1000, "Coinbase", c) : c \in {-1, 0, 100, 101} }

\* Order books at the limits of validateOrderBook: empty sides, levels out
\* of order, crossed and locked books, levels without price or quantity,
\* confidences and ages around their limits.
ValidationBooks ==
    { Book(s[1], s[2], 1000, "Coinbase", 99) :
          s \in { <<<<Level(100, 1), Level(99, 1)>>, <<Level(101, 1), Level(102, 1)>>>>,
                  <<<<>>, <<Level(101, 1)>>>>,
                  <<<<Level(100, 1)>>, <<>>>>,
                  <<<<>>, <<>>>>,
                  <<<<Level(99, 1), Level(100, 1)>>, <<Level(101, 1), Level(102, 1)>>>>,
                  <<<<Level(100, 1), Level(100, 1)>>, <<Level(101, 1), Level(102, 1)>>>>,
                  <<<<Level(100, 1), Level(99, 1)>>, <<Level(102, 1), Level(101, 1)>>>>,
                  <<<<Level(100, 1)>>, <<Level(99, 1)>>>>,
                  <<<<Level(100, 1)>>, <<Level(100, 1)>>>>,
                  <<<<Level(99, 1), Level(101, 1)>>, <<Level(100, 1), Level(102, 1)>>>>,
                  <<<<Level(100, 1), Level(0, 1)>>, <<Level(101, 1)>>>>,
                  <<<<Level(100, 1)>>, <<Level(101, 1), Level(102, 0)>>>> } }
    \cup { Book(<<Level(100, 1), Level(99, 1)>>, <<Level(101, 1), Level(102, 1)>>,
                1000, "Binance", c) : c \in {-1, 0, 100, 101} }
    \cup { Book(<<Level(100, 1), Level(99, 1)>>, <<Level(101, 1), Level(102, 1)>>,
                age, "Binance", 99) : age \in {60000, 60500, 61000} }

\* The value of a default-constructed MarketDataUpdate / OrderBookUpdate.
NoTick == Tick(0, 0, 0, 0, 0, 0, "", 0)
NoBook == Book(<<>>, <<>>, 0, "", 0)

\* Sentiment pushes: (source, score, confidence).
NoSentiment == [source |-> "", score |-> 0, confidence |-> 0]
SentimentInputs ==
    { [source |-> "Twitter", score |-> 50, confidence |-> 80],
      [source |-> "Twitter", score |-> 50, confidence |-> 150],
      [source |-> "News", score |-> -20, confidence |-> 100],
      [source |-> "Binance", score |-> 10, confidence |-> 50] }

\* What a registered callback does: nothing of interest to the pipeline
\* ("plain"), or a call of getLatestMarketData()/getLatestOrderBook()
\* ("reads").  "none" is an empty std::function.
CallbackKinds == {"none", "plain", "reads"}

VARIABLES
    running,        \* running_
    handle,         \* processingThread_: the worker it refers to, NoWorker when not joinable
    worker,         \* per worker: its position in processLoop and the item it popped
    terminated,     \* std::terminate / abort has ended the process
    ctl,            \* per controller thread: its position in start()/stop()
    prod,           \* per producer thread: its position in a push operation
    maxQueueSize,   \* maxQueueSize_
    marketDataQueue, orderBookQueue,
    marketDataMutex, orderBookMutex, dataMutex,   \* owner of each mutex
    latestMarketData, latestOrderBook, latestFeatures,
    marketDataCallback, orderBookCallback, sentimentCallback,
    indicators,     \* IndicatorManager: an SMA window and currentOrderBook_
    sentiment,      \* SentimentAnalyzer: the three observation lists
    qualityTracker, \* DataQualityTracker::sourceMetrics_
    saturating,     \* whether the tracker counters saturate at MaxPushes
    metricsMutex,   \* owner of DataQualityTracker::metricsMutex_
    indicatorSet,   \* one SMA, EMA, BollingerBands, RSI and ATR object, fed directly
    tickCount       \* history: ticks accepted, dropped from a queue, handed to
                    \* the indicator engine, handed to the market-data callback,
                    \* the push calls made per source, the items each
                    \* worker has popped in its current drain loop, and the
                    \* last tick and order book a push put into its queue

vars == <<running, handle, worker, terminated, ctl, prod, maxQueueSize,
          marketDataQueue, orderBookQueue, marketDataMutex, orderBookMutex,
          dataMutex, latestMarketData, latestOrderBook, latestFeatures,
          marketDataCallback, orderBookCallback, sentimentCallback,
          indicators, sentiment, qualityTracker, saturating, tickCount,
          metricsMutex, indicatorSet>>

lifecycleVars == <<running, handle, worker, terminated, ctl>>
queueVars == <<marketDataQueue, orderBookQueue, marketDataMutex, orderBookMutex>>
latestVars == <<latestMarketData, latestOrderBook, latestFeatures>>
callbackVars == <<marketDataCallback, orderBookCallback, sentimentCallback>>

(***************************************************************************)
(* Helpers on sequences.                                                   *)
(***************************************************************************)
RECURSIVE SumSeq(_)
SumSeq(s) == IF s = <<>> THEN 0 ELSE Head(s) + SumSeq(Tail(s))

RECURSIVE MaxSeq(_)
MaxSeq(s) ==
    IF Len(s) = 1 THEN Head(s)
    ELSE LET m == MaxSeq(Tail(s)) IN IF Head(s) > m THEN Head(s) ELSE m

\* A bounded push that removes the entry just added instead of the oldest
\* (pop_back for pop_front).
PushBoundedPopBack(s, x, bound) ==
    LET t == Append(s, x) IN IF Len(t) > bound THEN s ELSE t

\* push_back followed by the eviction of the oldest entry above `bound`.
PushBounded(s, x, bound) ==
    LET t == Append(s, x) IN IF Len(t) > bound THEN Tail(t) ELSE t

(***************************************************************************)
(* DataQualityTracker (DataQualityMetrics.cpp).                            *)
(***************************************************************************)
\* A default-constructed SourceMetrics: what sourceMetrics_[source] creates.
EmptySourceMetrics ==
    [history |-> <<>>, latencyHistory |-> <<>>,
     totalDataPoints |-> 0, validDataPoints |-> 0, rejectedDataPoints |-> 0,
     accuratePricePoints |-> 0, accurateVolumePoints |-> 0,
     accurateOrderBookPoints |-> 0]

\* counter++ ; under `saturating` the counter stays at MaxPushes once there.
Inc(c) == IF saturating /\ c >= MaxPushes THEN c ELSE c + 1

\* A calculateMetrics that takes the three accuracies as percentages of the
\* valid data points instead of all data points.
sourceReliabilityOverValid(m) ==
    <<3 * m.validDataPoints * m.validDataPoints
          + (3 * m.accuratePricePoints + 2 * m.accurateVolumePoints
                + 2 * m.accurateOrderBookPoints) * m.totalDataPoints,
      10 * m.totalDataPoints * m.validDataPoints>>

\* calculateMetrics, lines 154-166: every component is count / totalDataPoints
\* * 100, and sourceReliability = (completeness * 0.3 + priceAccuracy * 0.3
\* + volumeAccuracy * 0.2 + orderBookAccuracy * 0.2) / 100.  Kept as the exact
\* fraction <<numerator, denominator>> with both multiplied by 10.
sourceReliability(m) ==
    <<3 * m.validDataPoints + 3 * m.accuratePricePoints
          + 2 * m.accurateVolumePoints + 2 * m.accurateOrderBookPoints,
      10 * m.totalDataPoints>>

(***************************************************************************)
(* The doubles of calculateMetrics.  A non-negative IEEE-754 binary64 value *)
(* is [bits, exp]: 53 significand bits, most significant first, and the    *)
(* value (0.bits) * 2^exp; every operation rounds its exact result to       *)
(* nearest, ties to even, as the hardware does.                            *)
(***************************************************************************)
DoubleBits == 53

Zeros(n) == [i \in 1..n |-> 0]

DoubleZero == [bits |-> Zeros(DoubleBits), exp |-> 0]

\* The binary digits of a natural number, <<>> for 0.
RECURSIVE IntBits(_)
IntBits(n) == IF n = 0 THEN <<>> ELSE Append(IntBits(n \div 2), n % 2)

\* The first n binary digits of r / t for 0 <= r < t, and the remainder left
\* after them.
RECURSIVE FractionBits(_, _, _)
FractionBits(r, t, n) ==
    IF n = 0 THEN <<>>
    ELSE LET b == IF 2 * r >= t THEN 1 ELSE 0
         IN  <<b>> \o FractionBits(2 * r - b * t, t, n - 1)

RECURSIVE FractionRest(_, _, _)
FractionRest(r, t, n) ==
    IF n = 0 \/ r = 0 THEN r ELSE FractionRest((2 * r) % t, t, n - 1)

Reverse(s) == [i \in 1..Len(s) |-> s[Len(s) + 1 - i]]

RECURSIVE StripZeros(_)
StripZeros(b) == IF b # <<>> /\ Head(b) = 0 THEN StripZeros(Tail(b)) ELSE b

\* b + 1 on the digits of b; all zeros when every digit was 1.
RECURSIVE Increment(_)
Increment(b) ==
    IF b = <<>> THEN <<>>
    ELSE IF b[Len(b)] = 0 THEN [b EXCEPT ![Len(b)] = 1]
    ELSE Append(Increment(SubSeq(b, 1, Len(b) - 1)), 0)

\* Round to nearest, ties to even: the exact value is (0.b) * 2^exp plus, if
\* `sticky`, something below the last digit of b; b starts with 1.
RoundToDouble(b, exp, sticky) ==
    LET all == b \o Zeros(DoubleBits + 1)
        keep == SubSeq(all, 1, DoubleBits)
        rest == sticky \/ \E i \in (DoubleBits + 2)..Len(all) : all[i] = 1
        up == all[DoubleBits + 1] = 1 /\ (rest \/ keep[DoubleBits] = 1)
        inc == Increment(keep)
    IN  IF ~up THEN [bits |-> keep, exp |-> exp]
        ELSE IF inc[1] = 0
        THEN [bits |-> <<1>> \o Zeros(DoubleBits - 1), exp |-> exp + 1]
        ELSE [bits |-> inc, exp |-> exp]

\* static_cast<double>(v) / t for counters v >= 0, t > 0.
DoubleDivide(v, t) ==
    IF v = 0 THEN DoubleZero
    ELSE LET int == IntBits(v \div t)
             all == int \o FractionBits(v % t, t, DoubleBits + 11)
             norm == StripZeros(all)
         IN  RoundToDouble(norm, Len(int) - (Len(all) - Len(norm)),
                           FractionRest(v % t, t, DoubleBits + 11) # 0)

\* The digits of b * k + carry, least significant first.
RECURSIVE MulCarry(_, _, _)
MulCarry(b, k, carry) ==
    IF b = <<>> THEN Reverse(IntBits(carry))
    ELSE LET d == b[Len(b)] * k + carry
         IN  <<d % 2>> \o MulCarry(SubSeq(b, 1, Len(b) - 1), k, d \div 2)

\* x * k for a double x and a small whole number k >= 1 (k is exact as a
\* double).
DoubleTimes(x, k) ==
    IF x = DoubleZero THEN DoubleZero
    ELSE LET p == Reverse(MulCarry(x.bits, k, 0))
         IN  RoundToDouble(p, x.exp - DoubleBits + Len(p), FALSE)

\* The digits of a + b + carry for digit strings of one length, least
\* significant first.
RECURSIVE AddCarry(_, _, _)
AddCarry(a, b, carry) ==
    IF a = <<>> THEN Reverse(IntBits(carry))
    ELSE LET d == a[Len(a)] + b[Len(b)] + carry
         IN  <<d % 2>> \o AddCarry(SubSeq(a, 1, Len(a) - 1),
                                   SubSeq(b, 1, Len(b) - 1), d \div 2)

\* x + y for doubles x, y >= 0.
DoublePlus(x, y) ==
    IF x = DoubleZero THEN y
    ELSE IF y = DoubleZero THEN x
    ELSE LET hi == IF x.exp >= y.exp THEN x ELSE y
             lo == IF x.exp >= y.exp THEN y ELSE x
             d == hi.exp - lo.exp
             s == Reverse(AddCarry(hi.bits \o Zeros(d), Zeros(d) \o lo.bits, 0))
         IN  RoundToDouble(s, lo.exp - DoubleBits + Len(s), FALSE)

\* calculateMetrics, line 154: newMetrics.dataCompleteness =
\* static_cast<double>(validDataPoints) / totalDataPoints * 100.0, from the
\* counters the same sample stores.
dataCompleteness(m) == DoubleTimes(DoubleDivide(m.validDataPoints, m.totalDataPoints), 100)

\* A calculateMetrics that leaves out the "* 100.0" of missingDataRate.
missingDataRateAsFraction(m) == DoubleDivide(m.rejectedDataPoints, m.totalDataPoints)

\* calculateMetrics, line 155: newMetrics.missingDataRate =
\* static_cast<double>(rejectedDataPoints) / totalDataPoints * 100.0.
missingDataRate(m) == DoubleTimes(DoubleDivide(m.rejectedDataPoints, m.totalDataPoints), 100)

\* The DataQualityMetrics sample calculateMetrics builds.  The averages and
\* percentages the code stores as doubles are kept as their exact integer
\* numerators; the denominators are latencyCount and totalDataPoints:
\*   averageLatency   = latencySum / latencyCount
\*   dataCompleteness = validDataPoints / totalDataPoints * 100, and so on.
\* latencyStdDev is a function of the same latency window and is not kept.
NewMetrics(m) ==
    [latencySum |-> SumSeq(m.latencyHistory),
     latencyCount |-> Len(m.latencyHistory),
     maxLatency |-> IF m.latencyHistory = <<>> THEN 0 ELSE MaxSeq(m.latencyHistory),
     totalDataPoints |-> m.totalDataPoints,
     validDataPoints |-> m.validDataPoints,
     rejectedDataPoints |-> m.rejectedDataPoints,
     accuratePricePoints |-> m.accuratePricePoints,
     accurateVolumePoints |-> m.accurateVolumePoints,
     accurateOrderBookPoints |-> m.accurateOrderBookPoints,
     sourceReliability |-> sourceReliability(m)]

calculateMetrics(m) ==
    IF m.totalDataPoints = 0 THEN m
    ELSE [m EXCEPT !.history = PushBounded(m.history, NewMetrics(m), HistorySize)]

recordLatency(q, source, latency) ==
    [q EXCEPT ![source] =
        calculateMetrics(
            [@ EXCEPT !.latencyHistory = PushBounded(@, latency, HistorySize)])]

\* A recordDataPoint that counts a rejected point without counting it in
\* totalDataPoints.
recordDataPointRejectedUncounted(q, source, isValid) ==
    [q EXCEPT ![source] =
        calculateMetrics(
            IF isValid
            THEN [@ EXCEPT !.totalDataPoints = Inc(@),
                           !.validDataPoints = Inc(@)]
            ELSE [@ EXCEPT !.rejectedDataPoints = Inc(@)])]

recordDataPoint(q, source, isValid) ==
    [q EXCEPT ![source] =
        calculateMetrics(
            IF isValid
            THEN [@ EXCEPT !.totalDataPoints = Inc(@),
                           !.validDataPoints = Inc(@)]
            ELSE [@ EXCEPT !.totalDataPoints = Inc(@),
                           !.rejectedDataPoints = Inc(@)])]

recordPriceAccuracy(q, source, isAccurate) ==
    [q EXCEPT ![source] =
        calculateMetrics(
            IF isAccurate THEN [@ EXCEPT !.accuratePricePoints = Inc(@)] ELSE @)]

recordVolumeAccuracy(q, source, isAccurate) ==
    [q EXCEPT ![source] =
        calculateMetrics(
            IF isAccurate THEN [@ EXCEPT !.accurateVolumePoints = Inc(@)] ELSE @)]

\* A recordOrderBookAccuracy that counts an accurate order book as an
\* accurate price point as well.
recordOrderBookAccuracyAsPrice(q, source, isAccurate) ==
    [q EXCEPT ![source] =
        calculateMetrics(
            IF isAccurate THEN [@ EXCEPT !.accuratePricePoints = Inc(@),
                                         !.accurateOrderBookPoints = Inc(@)]
            ELSE @)]

recordOrderBookAccuracy(q, source, isAccurate) ==
    [q EXCEPT ![source] =
        calculateMetrics(
            IF isAccurate THEN [@ EXCEPT !.accurateOrderBookPoints = Inc(@)] ELSE @)]

\* updateMetrics / updateSourceMetrics: the caller's sample is appended to
\* the history of the source.
updateMetrics(q, source, metrics) ==
    [q EXCEPT ![source].history = PushBounded(@, metrics, HistorySize)]

\* A default-constructed DataQualityMetrics.
DefaultMetrics ==
    [latencySum |-> 0, latencyCount |-> 0, maxLatency |-> 0,
     totalDataPoints |-> 0, validDataPoints |-> 0, rejectedDataPoints |-> 0,
     accuratePricePoints |-> 0, accurateVolumePoints |-> 0,
     accurateOrderBookPoints |-> 0, sourceReliability |-> <<0, 1>>]

(***************************************************************************)
(* Validation (MarketDataPipeline.cpp).                                    *)
(***************************************************************************)
\* duration_cast<seconds> truncates toward zero.
TruncDiv(a, b) == IF a >= 0 THEN a \div b ELSE -((-a) \div b)

checkDataFreshness(ageMs) == TruncDiv(ageMs, 1000) <= FreshnessSeconds

checkDataConsistency(d) ==
    /\ ~(d.open <= 0 \/ d.high <= 0 \/ d.low <= 0 \/ d.close <= 0)
    /\ ~(d.high < d.low \/ d.high < d.open \/ d.high < d.close
            \/ d.low > d.open \/ d.low > d.close)
    /\ ~(d.volume < 0)

checkOrderBookConsistency(d) ==
    /\ \A i \in 1..Len(d.bids) : ~(d.bids[i].price <= 0 \/ d.bids[i].quantity <= 0)
    /\ \A i \in 1..Len(d.asks) : ~(d.asks[i].price <= 0 \/ d.asks[i].quantity <= 0)
    /\ (d.bids # <<>> /\ d.asks # <<>>) => ~(d.bids[1].price >= d.asks[1].price)

validateMarketData(data) ==
    /\ checkDataFreshness(data.ageMs)
    /\ checkDataConsistency(data)
    /\ ~(data.confidence < 0 \/ data.confidence > 100)

validateOrderBook(data) ==
    /\ checkDataFreshness(data.ageMs)
    /\ checkOrderBookConsistency(data)
    /\ ~(data.confidence < 0 \/ data.confidence > 100)

(***************************************************************************)
(* Queues (MarketDataPipeline.cpp, pushToQueue / popFromQueue).            *)
(***************************************************************************)
\* pushToQueue on a queue on which queue.pop() is defined.
pushToQueue(queue, data, cap) ==
    IF Len(queue) >= cap THEN Append(Tail(queue), data) ELSE Append(queue, data)

\* pushToQueue calls queue.pop() on an empty queue when the capacity is 0:
\* undefined behaviour.  std::deque::pop_front destroys an element that was
\* never constructed and moves the element count below zero; the build
\* aborts there (an assertion of a hardened library, or the destructor
\* running on raw memory), or it goes on and queue.push brings the count
\* back to zero: the queue is left empty and the pushed item is lost.
PopEmptyOutcomes == {<<>>}

(***************************************************************************)
(* The indicators of MarketData.cpp, each an object of period              *)
(* IndicatorPeriod that is fed OHLCV data directly.  A double is kept as   *)
(* the exact fraction <<numerator, denominator>>, denominator > 0.         *)
(***************************************************************************)
RatEq(a, b) == a[1] * b[2] = b[1] * a[2]
RatLeq(a, b) == a[1] * b[2] <= b[1] * a[2]
RatPlus(a, b) == <<a[1] * b[2] + b[1] * a[2], a[2] * b[2]>>

\* std::accumulate(values.begin(), values.end(), 0.0) over fractions.
RECURSIVE RatSum(_)
RatSum(values) == IF values = <<>> THEN <<0, 1>> ELSE RatPlus(Head(values), RatSum(Tail(values)))

\* The OHLCV data fed to the indicators: the close, with high and low one
\* above and one below it.
OHLCV(close) == [high |-> close + 1, low |-> close - 1, close |-> close]
IndicatorData == {OHLCV(10), OHLCV(20), OHLCV(30), OHLCV(40)}

\* MovingAverage::update (and SMA::update): push_back(data.close), erase
\* the first value above period_.
MovingAverage_update(values, data) == PushBounded(values, <<data.close, 1>>, IndicatorPeriod)

\* MovingAverage::getValue, inherited by SMA and EMA: 0.0 when empty, else
\* the mean of values_.
MovingAverage_getValue(values) ==
    IF values = <<>> THEN <<0, 1>>
    ELSE <<RatSum(values)[1], RatSum(values)[2] * Len(values)>>

\* alpha_ * close + (1 - alpha_) * previous with alpha_ = 2 / (period + 1).
Smoothed(close, previous) ==
    <<2 * close * previous[2] + (IndicatorPeriod - 1) * previous[1],
      (IndicatorPeriod + 1) * previous[2]>>

\* EMA::update: the first close is stored as it is, later the smoothed
\* value of the close and values_.back(), with the eviction above period_.
EMA_update(values, data) ==
    IF values = <<>> THEN <<<<data.close, 1>>>>
    ELSE PushBounded(values, Smoothed(data.close, values[Len(values)]), IndicatorPeriod)

\* BollingerBands::update: its own window of closes and its SMA.
BollingerBands_update(bb, data) ==
    [values |-> PushBounded(bb.values, data.close, IndicatorPeriod),
     sma |-> MovingAverage_update(bb.sma, data)]

\* RSI::update: the first close is only stored; later the change against
\* values_.back() goes to gains_ or losses_ (0.0 to the other), both are cut
\* to period_, and the averages are recomputed.  values_ is only pushed to.
RSI_update(rsi, data) ==
    IF rsi.values = <<>> THEN [rsi EXCEPT !.values = <<data.close>>]
    ELSE LET change == data.close - rsi.values[Len(rsi.values)]
             gains == PushBounded(rsi.gains, IF change >= 0 THEN change ELSE 0,
                                  IndicatorPeriod)
             losses == PushBounded(rsi.losses, IF change >= 0 THEN 0 ELSE -change,
                                   IndicatorPeriod)
         IN  [values |-> Append(rsi.values, data.close),
              gains |-> gains, losses |-> losses,
              avgGain |-> <<SumSeq(gains), Len(gains)>>,
              avgLoss |-> <<SumSeq(losses), Len(losses)>>]

\* An RSI::getValue that returns 100 when the average gain is 0.
RSI_getValueOnZeroGain(rsi) ==
    IF rsi.avgGain[1] = 0 \/ rsi.avgLoss[1] = 0 THEN <<100, 1>>
    ELSE <<100 * rsi.avgGain[1] * rsi.avgLoss[2],
           rsi.avgGain[2] * rsi.avgLoss[1] + rsi.avgGain[1] * rsi.avgLoss[2]>>

\* RSI::getValue: 100.0 when avgLoss_ == 0.0, else 100 - 100 / (1 + rs) with
\* rs = avgGain_ / avgLoss_, which is 100 * rs / (1 + rs).
RSI_getValue(rsi) ==
    IF rsi.avgLoss[1] = 0 THEN <<100, 1>>
    ELSE <<100 * rsi.avgGain[1] * rsi.avgLoss[2],
           rsi.avgGain[2] * rsi.avgLoss[1] + rsi.avgGain[1] * rsi.avgLoss[2]>>

Abs(x) == IF x < 0 THEN -x ELSE x
Max3(a, b, c) == IF a >= b /\ a >= c THEN a ELSE IF b >= c THEN b ELSE c

\* ATR::update: the first close is only stored; later the true range goes to
\* trueRanges_, which is cut to period_, currentATR_ is their mean, and the
\* close is pushed to values_, which is never cut.
ATR_update(atr, data) ==
    IF atr.values = <<>> THEN [atr EXCEPT !.values = <<data.close>>]
    ELSE LET back == atr.values[Len(atr.values)]
             trueRange == Max3(data.high - data.low, Abs(data.high - back),
                               Abs(data.low - back))
             trueRanges == PushBounded(atr.trueRanges, trueRange, IndicatorPeriod)
         IN  [values |-> Append(atr.values, data.close),
              trueRanges |-> trueRanges,
              currentATR |-> <<SumSeq(trueRanges), Len(trueRanges)>>]

\* The indicator objects as constructed.
NewIndicatorSet ==
    [sma |-> <<>>, ema |-> <<>>,
     bollinger |-> [values |-> <<>>, sma |-> <<>>],
     rsi |-> [values |-> <<>>, gains |-> <<>>, losses |-> <<>>,
              avgGain |-> <<0, 1>>, avgLoss |-> <<0, 1>>],
     atr |-> [values |-> <<>>, trueRanges |-> <<>>, currentATR |-> <<0, 1>>]]

(***************************************************************************)
(* IndicatorManager and SentimentAnalyzer, as far as the pipeline drives   *)
(* them.                                                                   *)
(***************************************************************************)
\* IndicatorManager::update: every moving average appends the close and
\* evicts above its period (MovingAverage::update).
IndicatorUpdate(ind, d) ==
    [ind EXCEPT !.closes = PushBounded(@, d.close, IndicatorPeriod)]

\* IndicatorManager::updateOrderBook.
IndicatorUpdateOrderBook(ind, b) == [ind EXCEPT !.currentOrderBook = b]

\* getBidAskSpread.
getBidAskSpread(ind) ==
    IF ind.currentOrderBook.bids = <<>> \/ ind.currentOrderBook.asks = <<>> THEN 0
    ELSE ind.currentOrderBook.asks[1].price - ind.currentOrderBook.bids[1].price

\* The total quantity of one side of an order book (std::accumulate).
RECURSIVE SumQuantity(_)
SumQuantity(levels) ==
    IF levels = <<>> THEN 0 ELSE Head(levels).quantity + SumQuantity(Tail(levels))

\* getOrderImbalance: (bidVolume - askVolume) / (bidVolume + askVolume), kept
\* as the pair of numerator and denominator; 0 when a side is empty.
getOrderImbalance(ind) ==
    IF ind.currentOrderBook.bids = <<>> \/ ind.currentOrderBook.asks = <<>> THEN <<0, 1>>
    ELSE <<SumQuantity(ind.currentOrderBook.bids) - SumQuantity(ind.currentOrderBook.asks),
           SumQuantity(ind.currentOrderBook.bids) + SumQuantity(ind.currentOrderBook.asks)>>

\* The periods initializeIndicators registers, in the order std::map
\* iterates them.
SMAPeriods == <<20, 50, 200>>
EMAPeriods == <<12, 26>>

\* The getters getFeatureVector calls first, in its order.
ScalarIndicators ==
    <<"RSI", "MACD", "MACD_SIGNAL", "MACD_HIST", "BB_UPPER", "BB_MIDDLE", "BB_LOWER", "ATR">>

\* One entry of a feature vector: which value it is and the state that value
\* is computed from (the arithmetic of the indicators is not carried out).
Feature(name, inputs) == <<name, inputs>>

\* What the price indicators have been fed: sum and count of the window.
ClosesSeen(ind) == <<SumSeq(ind.closes), Len(ind.closes)>>

\* IndicatorManager::getFeatureVector: the eight indicator values, one value
\* per SMA and per EMA, then spread, imbalance and slippage estimate.
getFeatureVector(ind) ==
    [i \in 1..Len(ScalarIndicators) |-> Feature(ScalarIndicators[i], ClosesSeen(ind))]
        \o [i \in 1..Len(SMAPeriods) |-> Feature(<<"SMA", SMAPeriods[i]>>, ClosesSeen(ind))]
        \o [i \in 1..Len(EMAPeriods) |-> Feature(<<"EMA", EMAPeriods[i]>>, ClosesSeen(ind))]
        \o <<Feature("spread", getBidAskSpread(ind)),
             Feature("imbalance", getOrderImbalance(ind)),
             Feature("slippage", <<getBidAskSpread(ind), getOrderImbalance(ind)>>)>>

\* getSentimentFeatures asks for getRecentSentiments(20).
RecentCount == 20

\* getRecentSentiments: allData, the three lists one after the other.
AllSentiments(sent) == sent["Twitter"] \o sent["Reddit"] \o sent["News"]

\* The results std::sort may leave for the comparison a.timestamp >
\* b.timestamp: every arrangement of allData with newer observations before
\* older ones; the order of observations of one timestamp is unspecified.
NewestFirst(allData) ==
    LET n == Len(allData)
        arrangements ==
            { [i \in 1..n |-> allData[f[i]]] :
                  f \in { g \in [1..n -> 1..n] :
                              \A i, j \in 1..n : i # j => g[i] # g[j] } }
    IN  { d \in arrangements : \A i, j \in 1..n : i < j => d[i].age <= d[j].age }

\* getRecentSentiments(count): the sorted data cut to its first `count`
\* entries; one result per possible sort result.
getRecentSentiments(sent, count) ==
    { IF Len(d) > count THEN SubSeq(d, 1, count) ELSE d :
          d \in NewestFirst(AllSentiments(sent)) }

\* getSentimentFeatures, lines 81-88: recentSentiments.back().score -
\* recentSentiments.front().score, 0.0 with fewer than two observations.
momentum(recentSentiments) ==
    IF Len(recentSentiments) >= 2
    THEN recentSentiments[Len(recentSentiments)].score - recentSentiments[1].score
    ELSE 0

\* A getSentimentFeatures that leaves out the momentum entry.
getSentimentFeaturesNoMomentum(sent) ==
    <<Feature("twitter", Len(sent["Twitter"])),
      Feature("reddit", Len(sent["Reddit"])),
      Feature("news", Len(sent["News"])),
      Feature("aggregate", Len(sent["Twitter"]) + Len(sent["Reddit"]) + Len(sent["News"]))>>

\* SentimentAnalyzer::getSentimentFeatures: the three per-source sentiments,
\* the aggregate, and the momentum: the values it can take, one per
\* possible result of the sort.
getSentimentFeatures(sent) ==
    LET total == Len(sent["Twitter"]) + Len(sent["Reddit"]) + Len(sent["News"]) IN
    <<Feature("twitter", Len(sent["Twitter"])),
      Feature("reddit", Len(sent["Reddit"])),
      Feature("news", Len(sent["News"])),
      Feature("aggregate", total),
      Feature("momentum", {momentum(r) : r \in getRecentSentiments(sent, RecentCount)})>>

\* What updateFeatures stores: the indicator features followed by the
\* sentiment features.
FeatureVector(ind, sent) == getFeatureVector(ind) \o getSentimentFeatures(sent)

\* The maxAge processLoop passes to clearOldData, in hours; an observation
\* carries its age now - timestamp in hours.
MaxAgeHours == 24

\* The largest age an observation reaches.
MaxClockAge == 48

RECURSIVE removeOldData(_, _)

\* A removeOldData that also erases the observations of age exactly maxAge
\* (>= for >).
removeOldDataFromMaxAge(data, maxAge) == SelectSeq(data, LAMBDA item : item.age < maxAge)

\* removeOldData: erases the observations with (now - timestamp) > maxAge
\* (std::remove_if keeps the others in their order).
removeOldData(data, maxAge) ==
    IF data = <<>> THEN <<>>
    ELSE IF Head(data).age > maxAge THEN removeOldData(Tail(data), maxAge)
         ELSE <<Head(data)>> \o removeOldData(Tail(data), maxAge)

clearOldData(sent, maxAge) ==
    [s \in SentimentSources |-> removeOldData(sent[s], maxAge)]

\* A producer thread outside any push operation.
IdleProducer == [pc |-> "idle", tick |-> NoTick, book |-> NoBook, sent |-> NoSentiment]

(***************************************************************************)
(* Initial state: a constructed pipeline.                                  *)
(***************************************************************************)
InitCommon ==
    /\ running = FALSE
    /\ handle = NoWorker
    /\ worker = [w \in Workers |-> [pc |-> "none", data |-> NoTick, orderBook |-> NoBook]]
    /\ terminated = FALSE
    /\ ctl = [c \in Controllers |-> [pc |-> "idle", seen |-> {}, target |-> NoWorker]]
    /\ prod = [p \in Producers |-> IdleProducer]
    /\ maxQueueSize = MaxQueue
    /\ marketDataQueue = <<>>
    /\ orderBookQueue = <<>>
    /\ marketDataMutex = Free
    /\ orderBookMutex = Free
    /\ dataMutex = Free
    /\ latestMarketData = NoTick
    /\ latestOrderBook = NoBook
    /\ latestFeatures = <<>>
    /\ marketDataCallback = "none"
    /\ orderBookCallback = "none"
    /\ sentimentCallback = "none"
    /\ indicators = [closes |-> <<>>, currentOrderBook |-> NoBook]
    /\ sentiment = [s \in SentimentSources |-> <<>>]
    /\ qualityTracker = [s \in Sources |-> EmptySourceMetrics]
    /\ metricsMutex = Free
    /\ indicatorSet = NewIndicatorSet
    /\ tickCount = [accepted |-> 0, dropped |-> 0, indicator |-> 0, callback |-> 0,
                    pushes |-> [s \in Sources |-> 0],
                    drained |-> [w \in Workers |-> 0],
                    lastTick |-> NoTick, lastBook |-> NoBook]

Init == InitCommon /\ saturating = FALSE

(***************************************************************************)
(* start() and stop().                                                     *)
(***************************************************************************)
Live(w) == worker[w].pc \notin {"none", "exited"}
LiveWorkers == {w \in Workers : Live(w)}

SetCtl(c, pc, seen, target) ==
    ctl' = [ctl EXCEPT ![c] = [pc |-> pc, seen |-> seen, target |-> target]]

\* start(): if (running_) return;
StartCheck(c) ==
    /\ ~terminated
    /\ ctl[c].pc = "idle"
    /\ IF running THEN UNCHANGED ctl
       ELSE SetCtl(c, "start_set", {}, NoWorker)
    /\ UNCHANGED <<tickCount, running, handle, worker, terminated, prod, maxQueueSize,
                   queueVars, dataMutex, latestVars, callbackVars, indicators,
                   sentiment, qualityTracker, saturating, indicatorSet, metricsMutex>>

\* start(): running_ = true;
StartSet(c) ==
    /\ ~terminated
    /\ ctl[c].pc = "start_set"
    /\ running' = TRUE
    /\ SetCtl(c, "start_spawn", {}, NoWorker)
    /\ UNCHANGED <<tickCount, handle, worker, terminated, prod, maxQueueSize,
                   queueVars, dataMutex, latestVars, callbackVars, indicators,
                   sentiment, qualityTracker, saturating, indicatorSet, metricsMutex>>

\* The worker a new std::thread becomes: the first unused identity.
FreshWorker == CHOOSE w \in Workers :
                  /\ worker[w].pc = "none"
                  /\ \A v \in Workers : worker[v].pc = "none" => w <= v

\* What the move-assignment leaves in processingThread_: assigning to a
\* joinable std::thread calls std::terminate.
AssignHandle(old, new) == IF old # NoWorker THEN old ELSE new

\* start(): processingThread_ = std::thread(&processLoop, this);
\* the new thread runs from its construction on.
StartSpawn(c) ==
    /\ ~terminated
    /\ ctl[c].pc = "start_spawn"
    /\ \E w \in Workers : worker[w].pc = "none"
    /\ worker' = [worker EXCEPT ![FreshWorker].pc = "loop"]
    /\ terminated' = (handle # NoWorker)
    /\ handle' = AssignHandle(handle, FreshWorker)
    /\ SetCtl(c, "idle", {}, NoWorker)
    /\ UNCHANGED <<tickCount, running, prod, maxQueueSize,
                   queueVars, dataMutex, latestVars, callbackVars, indicators,
                   sentiment, qualityTracker, saturating, indicatorSet, metricsMutex>>

\* Two threads assigning to processingThread_ with nothing ordering the
\* assignments: a data race, undefined behaviour.  Besides the std::terminate
\* of StartSpawn, a build has both assignments find the handle not joinable
\* and the later one overwrite it: the earlier worker runs on without a
\* handle next to the new one.
StartSpawnRace(c) ==
    /\ ~terminated
    /\ ctl[c].pc = "start_spawn"
    /\ handle # NoWorker
    /\ \E w \in Workers : worker[w].pc = "none"
    /\ worker' = [worker EXCEPT ![FreshWorker].pc = "loop"]
    /\ handle' = FreshWorker
    /\ SetCtl(c, "idle", {}, NoWorker)
    /\ UNCHANGED <<tickCount, running, terminated, prod, maxQueueSize,
                   queueVars, dataMutex, latestVars, callbackVars, indicators,
                   sentiment, qualityTracker, saturating, indicatorSet, metricsMutex>>

\* stop(): if (!running_) return;   The workers that are live when the call
\* is made are remembered in `seen`.
StopCheck(c) ==
    /\ ~terminated
    /\ ctl[c].pc = "idle"
    /\ IF ~running THEN SetCtl(c, "stop_ret", LiveWorkers, NoWorker)
       ELSE SetCtl(c, "stop_set", LiveWorkers, NoWorker)
    /\ UNCHANGED <<tickCount, running, handle, worker, terminated, prod, maxQueueSize,
                   queueVars, dataMutex, latestVars, callbackVars, indicators,
                   sentiment, qualityTracker, saturating, indicatorSet, metricsMutex>>

\* stop(): running_ = false; queueCondition_.notify_all();
StopSet(c) ==
    /\ ~terminated
    /\ ctl[c].pc = "stop_set"
    /\ running' = FALSE
    /\ SetCtl(c, "stop_join", ctl[c].seen, NoWorker)
    /\ UNCHANGED <<tickCount, handle, worker, terminated, prod, maxQueueSize,
                   queueVars, dataMutex, latestVars, callbackVars, indicators,
                   sentiment, qualityTracker, saturating, indicatorSet, metricsMutex>>

\* stop(): if (processingThread_.joinable())
StopJoinable(c) ==
    /\ ~terminated
    /\ ctl[c].pc = "stop_join"
    /\ IF handle # NoWorker THEN SetCtl(c, "joining", ctl[c].seen, handle)
       ELSE SetCtl(c, "stop_ret", ctl[c].seen, NoWorker)
    /\ UNCHANGED <<tickCount, running, handle, worker, terminated, prod, maxQueueSize,
                   queueVars, dataMutex, latestVars, callbackVars, indicators,
                   sentiment, qualityTracker, saturating, indicatorSet, metricsMutex>>

\* stop(): processingThread_.join(); returns once the worker has exited and
\* leaves the handle not joinable.
StopJoin(c) ==
    /\ ~terminated
    /\ ctl[c].pc = "joining"
    /\ worker[ctl[c].target].pc = "exited"
    /\ handle' = IF handle = ctl[c].target THEN NoWorker ELSE handle
    /\ SetCtl(c, "stop_ret", ctl[c].seen, NoWorker)
    /\ UNCHANGED <<tickCount, running, worker, terminated, prod, maxQueueSize,
                   queueVars, dataMutex, latestVars, callbackVars, indicators,
                   sentiment, qualityTracker, saturating, indicatorSet, metricsMutex>>

\* Two threads in join() on the same std::thread: undefined behaviour.
\* Besides waiting like StopJoin, a build has the second join fail with
\* std::system_error, which leaves stop() at once.
StopJoinRace(c) ==
    /\ ~terminated
    /\ ctl[c].pc = "joining"
    /\ \E d \in Controllers \ {c} :
          ctl[d].pc = "joining" /\ ctl[d].target = ctl[c].target
    /\ SetCtl(c, "stop_ret", ctl[c].seen, NoWorker)
    /\ UNCHANGED <<tickCount, running, handle, worker, terminated, prod, maxQueueSize,
                   queueVars, dataMutex, latestVars, callbackVars, indicators,
                   sentiment, qualityTracker, saturating, indicatorSet, metricsMutex>>

\* stop() has returned to its caller.
StopReturn(c) ==
    /\ ~terminated
    /\ ctl[c].pc = "stop_ret"
    /\ SetCtl(c, "idle", {}, NoWorker)
    /\ UNCHANGED <<tickCount, running, handle, worker, terminated, prod, maxQueueSize,
                   queueVars, dataMutex, latestVars, callbackVars, indicators,
                   sentiment, qualityTracker, saturating, indicatorSet, metricsMutex>>

(***************************************************************************)
(* Configuration and callback registration.                                *)
(***************************************************************************)
\* setMaxQueueSize(size): maxQueueSize_ = size; the queues are not touched.
SetMaxQueueSize(n) ==
    /\ ~terminated
    /\ n # maxQueueSize
    /\ maxQueueSize' = n
    /\ UNCHANGED <<tickCount, lifecycleVars, prod, queueVars, dataMutex, latestVars,
                   callbackVars, indicators, sentiment, qualityTracker, saturating, indicatorSet, metricsMutex>>

SetMarketDataCallback(k) ==
    /\ ~terminated
    /\ k # marketDataCallback
    /\ marketDataCallback' = k
    /\ UNCHANGED <<tickCount, lifecycleVars, prod, maxQueueSize, queueVars, dataMutex,
                   latestVars, orderBookCallback, sentimentCallback, indicators,
                   sentiment, qualityTracker, saturating, indicatorSet, metricsMutex>>

SetOrderBookCallback(k) ==
    /\ ~terminated
    /\ k # orderBookCallback
    /\ orderBookCallback' = k
    /\ UNCHANGED <<tickCount, lifecycleVars, prod, maxQueueSize, queueVars, dataMutex,
                   latestVars, marketDataCallback, sentimentCallback, indicators,
                   sentiment, qualityTracker, saturating, indicatorSet, metricsMutex>>

SetSentimentCallback(k) ==
    /\ ~terminated
    /\ k # sentimentCallback
    /\ sentimentCallback' = k
    /\ UNCHANGED <<tickCount, lifecycleVars, prod, maxQueueSize, queueVars, dataMutex,
                   latestVars, marketDataCallback, orderBookCallback, indicators,
                   sentiment, qualityTracker, saturating, indicatorSet, metricsMutex>>

(***************************************************************************)
(* pushMarketData / pushOrderBook / pushSentiment.                         *)
(***************************************************************************)
\* The data points recorded so far for the market sources.
RECURSIVE TotalRecorded(_)
TotalRecorded(srcs) ==
    IF srcs = {} THEN 0
    ELSE LET s == CHOOSE x \in srcs : TRUE
         IN qualityTracker[s].totalDataPoints + TotalRecorded(srcs \ {s})

\* Whether the behaviour may hold one more pushMarketData/pushOrderBook call.
CanCount == saturating \/ TotalRecorded(MarketSources) < MaxPushes

\* A producer calls pushMarketData(data).
PushMarketDataCall(p, data) ==
    /\ ~terminated
    /\ prod[p].pc = "idle"
    /\ CanCount
    /\ prod' = [prod EXCEPT ![p] = [IdleProducer EXCEPT !.pc = "md_validate", !.tick = data]]
    /\ tickCount' = [tickCount EXCEPT !.pushes[data.source] = Inc(@)]
    /\ UNCHANGED <<lifecycleVars, maxQueueSize, queueVars, dataMutex, latestVars,
                   callbackVars, indicators, sentiment, qualityTracker, saturating, indicatorSet, metricsMutex>>

\* A pushMarketData that records the latency before it validates the item.
PushMarketDataRejectedAfterLatency(p) ==
    /\ ~terminated
    /\ prod[p].pc = "md_validate"
    /\ ~validateMarketData(prod[p].tick)
    /\ metricsMutex = Free
    /\ qualityTracker' =
          recordDataPoint(
              recordLatency(qualityTracker, prod[p].tick.source, prod[p].tick.ageMs),
              prod[p].tick.source, FALSE)
    /\ prod' = [prod EXCEPT ![p] = [IdleProducer EXCEPT !.pc = "threw"]]
    /\ UNCHANGED <<tickCount, lifecycleVars, maxQueueSize, queueVars, dataMutex, latestVars,
                   callbackVars, indicators, sentiment, saturating, indicatorSet, metricsMutex>>

\* pushMarketData, lines 40-43: the item fails validation; a rejected data
\* point is recorded and std::runtime_error is thrown.
PushMarketDataRejected(p) ==
    /\ ~terminated
    /\ prod[p].pc = "md_validate"
    /\ ~validateMarketData(prod[p].tick)
    /\ metricsMutex = Free
    /\ qualityTracker' = recordDataPoint(qualityTracker, prod[p].tick.source, FALSE)
    /\ prod' = [prod EXCEPT ![p] = [IdleProducer EXCEPT !.pc = "threw"]]
    /\ UNCHANGED <<tickCount, lifecycleVars, maxQueueSize, queueVars, dataMutex, latestVars,
                   callbackVars, indicators, sentiment, saturating, indicatorSet, metricsMutex>>

\* pushMarketData, lines 45-48: the item passes; its latency and a valid data
\* point are recorded.
PushMarketDataAccepted(p) ==
    /\ ~terminated
    /\ prod[p].pc = "md_validate"
    /\ validateMarketData(prod[p].tick)
    /\ metricsMutex = Free
    /\ qualityTracker' =
          recordDataPoint(
              recordLatency(qualityTracker, prod[p].tick.source, prod[p].tick.ageMs),
              prod[p].tick.source, TRUE)
    /\ prod' = [prod EXCEPT ![p].pc = "md_lock"]
    /\ tickCount' = [tickCount EXCEPT !.accepted = Inc(@)]
    /\ UNCHANGED <<lifecycleVars, maxQueueSize, queueVars, dataMutex, latestVars,
                   callbackVars, indicators, sentiment, saturating, indicatorSet, metricsMutex>>

\* pushToQueue(marketDataQueue_, ...): std::lock_guard lock(mutex);
PushMarketDataLock(p) ==
    /\ ~terminated
    /\ prod[p].pc = "md_lock"
    /\ marketDataMutex = Free
    /\ marketDataMutex' = P(p)
    /\ prod' = [prod EXCEPT ![p].pc = "md_enqueue"]
    /\ UNCHANGED <<tickCount, lifecycleVars, maxQueueSize, marketDataQueue, orderBookQueue,
                   orderBookMutex, dataMutex, latestVars, callbackVars, indicators,
                   sentiment, qualityTracker, saturating, indicatorSet, metricsMutex>>

\* pushToQueue(marketDataQueue_, ...): evict if full, push, notify, unlock.
PushMarketDataEnqueue(p) ==
    /\ ~terminated
    /\ prod[p].pc = "md_enqueue"
    /\ IF marketDataQueue = <<>> /\ Len(marketDataQueue) >= maxQueueSize
       THEN \/ /\ terminated' = TRUE
               /\ UNCHANGED marketDataQueue
            \/ /\ marketDataQueue' \in PopEmptyOutcomes
               /\ UNCHANGED terminated
       ELSE /\ marketDataQueue' = pushToQueue(marketDataQueue, prod[p].tick, maxQueueSize)
            /\ UNCHANGED terminated
    /\ marketDataMutex' = Free
    /\ prod' = [prod EXCEPT ![p] = IdleProducer]
    /\ tickCount' = [tickCount EXCEPT
                         !.dropped = IF Len(marketDataQueue) >= maxQueueSize
                                     THEN Inc(@) ELSE @,
                         !.lastTick = prod[p].tick]
    /\ UNCHANGED <<running, handle, worker, ctl, maxQueueSize, orderBookQueue,
                   orderBookMutex, dataMutex, latestVars, callbackVars, indicators,
                   sentiment, qualityTracker, saturating, indicatorSet, metricsMutex>>

\* A producer calls pushOrderBook(data).
PushOrderBookCall(p, data) ==
    /\ ~terminated
    /\ prod[p].pc = "idle"
    /\ CanCount
    /\ prod' = [prod EXCEPT ![p] = [IdleProducer EXCEPT !.pc = "ob_validate", !.book = data]]
    /\ tickCount' = [tickCount EXCEPT !.pushes[data.source] = Inc(@)]
    /\ UNCHANGED <<lifecycleVars, maxQueueSize, queueVars, dataMutex, latestVars,
                   callbackVars, indicators, sentiment, qualityTracker, saturating, indicatorSet, metricsMutex>>

\* A pushOrderBook that rejects an order book and puts it into the queue
\* all the same.
PushOrderBookRejectedButQueued(p) ==
    /\ ~terminated
    /\ prod[p].pc = "ob_validate"
    /\ ~validateOrderBook(prod[p].book)
    /\ metricsMutex = Free
    /\ qualityTracker' = recordDataPoint(qualityTracker, prod[p].book.source, FALSE)
    /\ orderBookQueue' = Append(orderBookQueue, prod[p].book)
    /\ prod' = [prod EXCEPT ![p] = [IdleProducer EXCEPT !.pc = "threw"]]
    /\ UNCHANGED <<tickCount, lifecycleVars, maxQueueSize, marketDataQueue,
                   marketDataMutex, orderBookMutex, dataMutex, latestVars,
                   callbackVars, indicators, sentiment, saturating, indicatorSet,
                   metricsMutex>>

\* pushOrderBook, lines 54-57.
PushOrderBookRejected(p) ==
    /\ ~terminated
    /\ prod[p].pc = "ob_validate"
    /\ ~validateOrderBook(prod[p].book)
    /\ metricsMutex = Free
    /\ qualityTracker' = recordDataPoint(qualityTracker, prod[p].book.source, FALSE)
    /\ prod' = [prod EXCEPT ![p] = [IdleProducer EXCEPT !.pc = "threw"]]
    /\ UNCHANGED <<tickCount, lifecycleVars, maxQueueSize, queueVars, dataMutex, latestVars,
                   callbackVars, indicators, sentiment, saturating, indicatorSet, metricsMutex>>

\* pushOrderBook, lines 59-62.
PushOrderBookAccepted(p) ==
    /\ ~terminated
    /\ prod[p].pc = "ob_validate"
    /\ validateOrderBook(prod[p].book)
    /\ metricsMutex = Free
    /\ qualityTracker' =
          recordDataPoint(
              recordLatency(qualityTracker, prod[p].book.source, prod[p].book.ageMs),
              prod[p].book.source, TRUE)
    /\ prod' = [prod EXCEPT ![p].pc = "ob_lock"]
    /\ UNCHANGED <<tickCount, lifecycleVars, maxQueueSize, queueVars, dataMutex, latestVars,
                   callbackVars, indicators, sentiment, saturating, indicatorSet, metricsMutex>>

PushOrderBookLock(p) ==
    /\ ~terminated
    /\ prod[p].pc = "ob_lock"
    /\ orderBookMutex = Free
    /\ orderBookMutex' = P(p)
    /\ prod' = [prod EXCEPT ![p].pc = "ob_enqueue"]
    /\ UNCHANGED <<tickCount, lifecycleVars, maxQueueSize, marketDataQueue, orderBookQueue,
                   marketDataMutex, dataMutex, latestVars, callbackVars, indicators,
                   sentiment, qualityTracker, saturating, indicatorSet, metricsMutex>>

PushOrderBookEnqueue(p) ==
    /\ ~terminated
    /\ prod[p].pc = "ob_enqueue"
    /\ IF orderBookQueue = <<>> /\ Len(orderBookQueue) >= maxQueueSize
       THEN \/ /\ terminated' = TRUE
               /\ UNCHANGED orderBookQueue
            \/ /\ orderBookQueue' \in PopEmptyOutcomes
               /\ UNCHANGED terminated
       ELSE /\ orderBookQueue' = pushToQueue(orderBookQueue, prod[p].book, maxQueueSize)
            /\ UNCHANGED terminated
    /\ orderBookMutex' = Free
    /\ prod' = [prod EXCEPT ![p] = IdleProducer]
    /\ tickCount' = [tickCount EXCEPT !.lastBook = prod[p].book]
    /\ UNCHANGED <<running, handle, worker, ctl, maxQueueSize, marketDataQueue,
                   marketDataMutex, dataMutex, latestVars, callbackVars, indicators,
                   sentiment, qualityTracker, saturating, indicatorSet, metricsMutex>>

\* A producer calls pushSentiment(source, text, score, confidence).
PushSentimentCall(p, s) ==
    /\ ~terminated
    /\ prod[p].pc = "idle"
    /\ s.source \in SentimentSources => Len(sentiment[s.source]) < MaxSent
    /\ prod' = [prod EXCEPT ![p] = [IdleProducer EXCEPT !.pc = "s_validate", !.sent = s]]
    /\ UNCHANGED <<tickCount, lifecycleVars, maxQueueSize, queueVars, dataMutex, latestVars,
                   callbackVars, indicators, sentiment, qualityTracker, saturating, indicatorSet, metricsMutex>>

\* A pushSentiment that checks the confidence after the dispatch: the
\* observation of a recognised source is appended before the throw.
PushSentimentRejectedAfterAppend(p) ==
    /\ ~terminated
    /\ prod[p].pc = "s_validate"
    /\ \/ prod[p].sent.confidence < 0
       \/ prod[p].sent.confidence > 100
       \/ prod[p].sent.source \notin SentimentSources
    /\ sentiment' = IF prod[p].sent.source \in SentimentSources
                    THEN [sentiment EXCEPT ![prod[p].sent.source] =
                             Append(@, [score |-> prod[p].sent.score,
                                        confidence |-> prod[p].sent.confidence,
                                        age |-> 0])]
                    ELSE sentiment
    /\ prod' = [prod EXCEPT ![p] = [IdleProducer EXCEPT !.pc = "threw"]]
    /\ UNCHANGED <<tickCount, lifecycleVars, maxQueueSize, queueVars, dataMutex, latestVars,
                   callbackVars, indicators, qualityTracker, saturating, indicatorSet, metricsMutex>>

\* pushSentiment, lines 71-73 and 81-83: the confidence is out of range or
\* the source is none of the three; std::runtime_error is thrown.
PushSentimentRejected(p) ==
    /\ ~terminated
    /\ prod[p].pc = "s_validate"
    /\ \/ prod[p].sent.confidence < 0
       \/ prod[p].sent.confidence > 100
       \/ prod[p].sent.source \notin SentimentSources
    /\ prod' = [prod EXCEPT ![p] = [IdleProducer EXCEPT !.pc = "threw"]]
    /\ UNCHANGED <<tickCount, lifecycleVars, maxQueueSize, queueVars, dataMutex, latestVars,
                   callbackVars, indicators, sentiment, qualityTracker, saturating, indicatorSet, metricsMutex>>

\* pushSentiment, lines 71-83: the confidence is in range and the source is
\* one of the three; the push is dispatched to that source's update method.
PushSentimentAccepted(p) ==
    /\ ~terminated
    /\ prod[p].pc = "s_validate"
    /\ ~(prod[p].sent.confidence < 0 \/ prod[p].sent.confidence > 100)
    /\ prod[p].sent.source \in SentimentSources
    /\ Len(sentiment[prod[p].sent.source]) < MaxSent
    /\ prod' = [prod EXCEPT ![p].pc = "s_append"]
    /\ UNCHANGED <<tickCount, lifecycleVars, maxQueueSize, queueVars, dataMutex, latestVars,
                   callbackVars, indicators, sentiment, qualityTracker, saturating, indicatorSet, metricsMutex>>

\* The worker is in a part of processLoop that accesses the observation
\* lists: getSentimentFeatures (called by updateFeatures) or clearOldData.
WorkerAccessesSentiment(w) == worker[w].pc \in {"features", "prune"}

\* update*Sentiment (SentimentAnalyzer.cpp 10-41): push_back on the list of
\* the source, with no lock held; then pushSentiment line 85 tests the
\* callback.  No tracker call and no per-source latest value is written.
PushSentimentAppend(p) ==
    /\ ~terminated
    /\ prod[p].pc = "s_append"
    /\ sentiment' = [sentiment EXCEPT ![prod[p].sent.source] =
                        Append(@, [score |-> prod[p].sent.score,
                                   confidence |-> prod[p].sent.confidence,
                                   age |-> 0])]
    /\ prod' = IF sentimentCallback = "none"
               THEN [prod EXCEPT ![p] = IdleProducer]
               ELSE [prod EXCEPT ![p].pc = "s_callback"]
    /\ UNCHANGED <<tickCount, lifecycleVars, maxQueueSize, queueVars, dataMutex, latestVars,
                   callbackVars, indicators, qualityTracker, saturating, indicatorSet, metricsMutex>>

\* The push_back runs while the worker reads or erases the same vectors: a
\* data race on std::vector.  Besides the outcome above, the process may
\* crash.
PushSentimentAppendRace(p) ==
    /\ ~terminated
    /\ prod[p].pc = "s_append"
    /\ \E w \in Workers : WorkerAccessesSentiment(w)
    /\ terminated' = TRUE
    /\ UNCHANGED <<tickCount, running, handle, worker, ctl, prod, maxQueueSize, queueVars,
                   dataMutex, latestVars, callbackVars, indicators, sentiment,
                   qualityTracker, saturating, indicatorSet, metricsMutex>>

\* pushSentiment, line 86: sentimentCallback_(getAggregateSentiment()) on
\* the caller's thread, no lock held; a callback that reads the latest
\* market data takes and releases dataMutex_.
PushSentimentCallback(p) ==
    /\ ~terminated
    /\ prod[p].pc = "s_callback"
    /\ sentimentCallback = "reads" => dataMutex = Free
    /\ prod' = [prod EXCEPT ![p] = IdleProducer]
    /\ UNCHANGED <<tickCount, lifecycleVars, maxQueueSize, queueVars, dataMutex, latestVars,
                   callbackVars, indicators, sentiment, qualityTracker, saturating, indicatorSet, metricsMutex>>

\* The exception of a rejected push has reached the caller.
PushThrown(p) ==
    /\ ~terminated
    /\ prod[p].pc = "threw"
    /\ prod' = [prod EXCEPT ![p] = IdleProducer]
    /\ UNCHANGED <<tickCount, lifecycleVars, maxQueueSize, queueVars, dataMutex, latestVars,
                   callbackVars, indicators, sentiment, qualityTracker, saturating, indicatorSet, metricsMutex>>

\* Time passes: system_clock::now() moves on by `hours`, and with it the age
\* of every stored observation.
AdvanceClock(hours) ==
    /\ ~terminated
    /\ \E s \in SentimentSources : sentiment[s] # <<>>
    /\ \A s \in SentimentSources : \A i \in 1..Len(sentiment[s]) :
          sentiment[s][i].age + hours <= MaxClockAge
    /\ sentiment' = [s \in SentimentSources |->
                        [i \in 1..Len(sentiment[s]) |->
                            [sentiment[s][i] EXCEPT !.age = @ + hours]]]
    /\ UNCHANGED <<tickCount, lifecycleVars, prod, maxQueueSize, queueVars, dataMutex, latestVars,
                   callbackVars, indicators, qualityTracker, saturating, indicatorSet, metricsMutex>>

\* More than 24 hours pass: every stored observation is now older than that.
ClockAdvance == AdvanceClock(MaxAgeHours + 1)

(***************************************************************************)
(* The worker: processLoop, processMarketData, processOrderBook,           *)
(* updateFeatures.                                                         *)
(***************************************************************************)
SetWorker(w, pc) == worker' = [worker EXCEPT ![w].pc = pc]

\* processLoop: while (running_)
WorkerLoop(w) ==
    /\ ~terminated
    /\ worker[w].pc = "loop"
    /\ SetWorker(w, IF running THEN "wait" ELSE "exited")
    /\ UNCHANGED <<tickCount, running, handle, terminated, ctl, prod, maxQueueSize, queueVars,
                   dataMutex, latestVars, callbackVars, indicators, sentiment,
                   qualityTracker, saturating, indicatorSet, metricsMutex>>

\* processLoop: queueCondition_.wait_for(...) returns, on its predicate or on
\* its timeout; if (!running_) break;
WorkerWait(w) ==
    /\ ~terminated
    /\ worker[w].pc = "wait"
    /\ SetWorker(w, IF running THEN "md_pop_lock" ELSE "exited")
    /\ UNCHANGED <<tickCount, running, handle, terminated, ctl, prod, maxQueueSize, queueVars,
                   dataMutex, latestVars, callbackVars, indicators, sentiment,
                   qualityTracker, saturating, indicatorSet, metricsMutex>>

\* popFromQueue(marketDataQueue_, ...): std::lock_guard lock(mutex);
WorkerMarketDataLock(w) ==
    /\ ~terminated
    /\ worker[w].pc = "md_pop_lock"
    /\ marketDataMutex = Free
    /\ marketDataMutex' = W(w)
    /\ SetWorker(w, "md_pop")
    /\ UNCHANGED <<tickCount, running, handle, terminated, ctl, prod, maxQueueSize,
                   marketDataQueue, orderBookQueue, orderBookMutex,
                   dataMutex, latestVars, callbackVars, indicators, sentiment,
                   qualityTracker, saturating, indicatorSet, metricsMutex>>

\* A popFromQueue whose lock outlives the call: the worker still owns the
\* queue mutex while it processes the item.
popFromQueueKeepsLock(w) == W(w)

\* The owner of a queue mutex once popFromQueue has returned.
popFromQueueUnlock(w) == Free

\* A popFromQueue that copies the front item and leaves it in the queue.
popFromQueueKeepsFront(queue) == queue

\* popFromQueue on a non-empty queue: data = queue.front(); queue.pop();
\* the queue it leaves.
popFromQueue(queue) == Tail(queue)

\* popFromQueue(marketDataQueue_, ...): false on an empty queue, else the
\* front item is taken; processMarketData's while loop ends on false.
WorkerMarketDataPop(w) ==
    /\ ~terminated
    /\ worker[w].pc = "md_pop"
    /\ IF marketDataQueue = <<>>
       THEN /\ SetWorker(w, "ob_pop_lock")
            /\ UNCHANGED marketDataQueue
       ELSE /\ worker' = [worker EXCEPT ![w].pc = "md_update",
                                        ![w].data = Head(marketDataQueue)]
            /\ marketDataQueue' = popFromQueue(marketDataQueue)
    /\ marketDataMutex' = popFromQueueUnlock(w)
    /\ tickCount' = [tickCount EXCEPT !.drained[w] =
                         IF marketDataQueue = <<>> THEN 0 ELSE Inc(@)]
    /\ UNCHANGED <<running, handle, terminated, ctl, prod, maxQueueSize,
                   orderBookQueue, orderBookMutex,
                   dataMutex, latestVars, callbackVars, indicators, sentiment,
                   qualityTracker, saturating, indicatorSet, metricsMutex>>

\* processMarketData: indicatorManager_->update(data.data);
WorkerMarketDataUpdate(w) ==
    /\ ~terminated
    /\ worker[w].pc = "md_update"
    /\ indicators' = IndicatorUpdate(indicators, worker[w].data)
    /\ SetWorker(w, "md_store")
    /\ tickCount' = [tickCount EXCEPT !.indicator = Inc(@)]
    /\ UNCHANGED <<running, handle, terminated, ctl, prod, maxQueueSize, queueVars,
                   dataMutex, latestVars, callbackVars, sentiment,
                   qualityTracker, saturating, indicatorSet, metricsMutex>>

\* processMarketData: std::lock_guard lock(dataMutex_); latestMarketData_ = data;
\* the guard lives to the end of the loop body.
WorkerMarketDataStore(w) ==
    /\ ~terminated
    /\ worker[w].pc = "md_store"
    /\ dataMutex = Free
    /\ dataMutex' = W(w)
    /\ latestMarketData' = worker[w].data
    /\ SetWorker(w, IF marketDataCallback = "none" THEN "md_accuracy" ELSE "md_callback")
    /\ tickCount' = IF marketDataCallback = "none" THEN tickCount
                    ELSE [tickCount EXCEPT !.callback = Inc(@)]
    /\ UNCHANGED <<running, handle, terminated, ctl, prod, maxQueueSize, queueVars,
                   latestOrderBook, latestFeatures, callbackVars, indicators,
                   sentiment, qualityTracker, saturating, indicatorSet, metricsMutex>>

\* processMarketData: marketDataCallback_(data); the callback returns.  A
\* callback that reads a latest snapshot locks dataMutex_ in the accessor.
WorkerMarketDataCallback(w) ==
    /\ ~terminated
    /\ worker[w].pc = "md_callback"
    /\ marketDataCallback = "reads" => dataMutex = Free
    /\ SetWorker(w, "md_accuracy")
    /\ UNCHANGED <<tickCount, running, handle, terminated, ctl, prod, maxQueueSize, queueVars,
                   dataMutex, latestVars, callbackVars, indicators, sentiment,
                   qualityTracker, saturating, indicatorSet, metricsMutex>>

\* A thread that locks a std::mutex it owns: undefined behaviour.  The
\* thread blocks for ever (no step), or the lock throws std::system_error,
\* which leaves the thread function and calls std::terminate.
WorkerRelock(w) ==
    /\ ~terminated
    /\ \/ worker[w].pc = "md_callback" /\ marketDataCallback = "reads"
       \/ worker[w].pc = "ob_callback" /\ orderBookCallback = "reads"
    /\ dataMutex = W(w)
    /\ terminated' = TRUE
    /\ UNCHANGED <<tickCount, running, handle, worker, ctl, prod, maxQueueSize, queueVars,
                   dataMutex, latestVars, callbackVars, indicators, sentiment,
                   qualityTracker, saturating, indicatorSet, metricsMutex>>

\* processMarketData: recordPriceAccuracy, recordVolumeAccuracy; then the
\* loop body ends and the lock_guard releases dataMutex_.
WorkerMarketDataAccuracy(w) ==
    /\ ~terminated
    /\ worker[w].pc = "md_accuracy"
    /\ metricsMutex = Free
    /\ qualityTracker' =
          recordVolumeAccuracy(
              recordPriceAccuracy(qualityTracker, worker[w].data.source,
                                  worker[w].data.confidence >= PriceAccuracyThreshold),
              worker[w].data.source,
              worker[w].data.confidence >= VolumeAccuracyThreshold)
    /\ dataMutex' = Free
    /\ worker' = [worker EXCEPT ![w].pc = "md_pop_lock", ![w].data = NoTick]
    /\ UNCHANGED <<tickCount, running, handle, terminated, ctl, prod, maxQueueSize, queueVars,
                   latestVars, callbackVars, indicators, sentiment, saturating, indicatorSet, metricsMutex>>

WorkerOrderBookLock(w) ==
    /\ ~terminated
    /\ worker[w].pc = "ob_pop_lock"
    /\ orderBookMutex = Free
    /\ orderBookMutex' = W(w)
    /\ SetWorker(w, "ob_pop")
    /\ UNCHANGED <<tickCount, running, handle, terminated, ctl, prod, maxQueueSize,
                   marketDataQueue, orderBookQueue, marketDataMutex,
                   dataMutex, latestVars, callbackVars, indicators, sentiment,
                   qualityTracker, saturating, indicatorSet, metricsMutex>>

WorkerOrderBookPop(w) ==
    /\ ~terminated
    /\ worker[w].pc = "ob_pop"
    /\ IF orderBookQueue = <<>>
       THEN /\ SetWorker(w, "features")
            /\ UNCHANGED orderBookQueue
       ELSE /\ worker' = [worker EXCEPT ![w].pc = "ob_update",
                                        ![w].orderBook = Head(orderBookQueue)]
            /\ orderBookQueue' = popFromQueue(orderBookQueue)
    /\ orderBookMutex' = popFromQueueUnlock(w)
    /\ tickCount' = [tickCount EXCEPT !.drained[w] =
                         IF orderBookQueue = <<>> THEN 0 ELSE Inc(@)]
    /\ UNCHANGED <<running, handle, terminated, ctl, prod, maxQueueSize,
                   marketDataQueue, marketDataMutex,
                   dataMutex, latestVars, callbackVars, indicators, sentiment,
                   qualityTracker, saturating, indicatorSet, metricsMutex>>

\* processOrderBook: indicatorManager_->updateOrderBook(orderBook.data);
WorkerOrderBookUpdate(w) ==
    /\ ~terminated
    /\ worker[w].pc = "ob_update"
    /\ indicators' = IndicatorUpdateOrderBook(indicators, worker[w].orderBook)
    /\ SetWorker(w, "ob_store")
    /\ UNCHANGED <<tickCount, running, handle, terminated, ctl, prod, maxQueueSize, queueVars,
                   dataMutex, latestVars, callbackVars, sentiment,
                   qualityTracker, saturating, indicatorSet, metricsMutex>>

WorkerOrderBookStore(w) ==
    /\ ~terminated
    /\ worker[w].pc = "ob_store"
    /\ dataMutex = Free
    /\ dataMutex' = W(w)
    /\ latestOrderBook' = worker[w].orderBook
    /\ SetWorker(w, IF orderBookCallback = "none" THEN "ob_accuracy" ELSE "ob_callback")
    /\ UNCHANGED <<tickCount, running, handle, terminated, ctl, prod, maxQueueSize, queueVars,
                   latestMarketData, latestFeatures, callbackVars, indicators,
                   sentiment, qualityTracker, saturating, indicatorSet, metricsMutex>>

WorkerOrderBookCallback(w) ==
    /\ ~terminated
    /\ worker[w].pc = "ob_callback"
    /\ orderBookCallback = "reads" => dataMutex = Free
    /\ SetWorker(w, "ob_accuracy")
    /\ UNCHANGED <<tickCount, running, handle, terminated, ctl, prod, maxQueueSize, queueVars,
                   dataMutex, latestVars, callbackVars, indicators, sentiment,
                   qualityTracker, saturating, indicatorSet, metricsMutex>>

WorkerOrderBookAccuracy(w) ==
    /\ ~terminated
    /\ worker[w].pc = "ob_accuracy"
    /\ metricsMutex = Free
    /\ qualityTracker' =
          recordOrderBookAccuracy(qualityTracker, worker[w].orderBook.source,
                                  worker[w].orderBook.confidence >= PriceAccuracyThreshold)
    /\ dataMutex' = Free
    /\ worker' = [worker EXCEPT ![w].pc = "ob_pop_lock", ![w].orderBook = NoBook]
    /\ UNCHANGED <<tickCount, running, handle, terminated, ctl, prod, maxQueueSize, queueVars,
                   latestVars, callbackVars, indicators, sentiment, saturating, indicatorSet, metricsMutex>>

\* updateFeatures, under dataMutex_ for its whole body.
WorkerUpdateFeatures(w) ==
    /\ ~terminated
    /\ worker[w].pc = "features"
    /\ dataMutex = Free
    /\ latestFeatures' = FeatureVector(indicators, sentiment)
    /\ SetWorker(w, "prune")
    /\ UNCHANGED <<tickCount, running, handle, terminated, ctl, prod, maxQueueSize, queueVars,
                   dataMutex, latestMarketData, latestOrderBook, callbackVars,
                   indicators, sentiment, qualityTracker, saturating, indicatorSet, metricsMutex>>

\* processLoop: sentimentAnalyzer_->clearOldData(std::chrono::hours(24));
WorkerPrune(w) ==
    /\ ~terminated
    /\ worker[w].pc = "prune"
    /\ sentiment' = clearOldData(sentiment, MaxAgeHours)
    /\ SetWorker(w, "loop")
    /\ UNCHANGED <<tickCount, running, handle, terminated, ctl, prod, maxQueueSize, queueVars,
                   dataMutex, latestVars, callbackVars, indicators,
                   qualityTracker, saturating, indicatorSet, metricsMutex>>

(***************************************************************************)
(* Specifications.  The pipeline's state is the product of independent     *)
(* parts (lifecycle, queues, tracker, callbacks, sentiment); each          *)
(* specification below runs the threads and inputs that act on the parts   *)
(* its properties read, from the same constructed pipeline.  No action is  *)
(* enabled once the process has been terminated.                           *)
(***************************************************************************)
\* The worker's pass over the market-data queue and the rest of the loop.
WorkerMarketData(w) ==
    \/ WorkerLoop(w) \/ WorkerWait(w)
    \/ WorkerMarketDataLock(w) \/ WorkerMarketDataPop(w) \/ WorkerMarketDataUpdate(w)
    \/ WorkerMarketDataStore(w) \/ WorkerMarketDataAccuracy(w)
    \/ WorkerOrderBookLock(w) \/ WorkerOrderBookPop(w)
    \/ WorkerUpdateFeatures(w) \/ WorkerPrune(w)

\* The worker's processing of a popped order book.
WorkerOrderBook(w) ==
    \/ WorkerOrderBookUpdate(w) \/ WorkerOrderBookStore(w) \/ WorkerOrderBookAccuracy(w)

\* The worker's callback invocations.
WorkerCallbacks(w) ==
    \/ WorkerMarketDataCallback(w) \/ WorkerOrderBookCallback(w) \/ WorkerRelock(w)

Start(c) == StartCheck(c) \/ StartSet(c) \/ StartSpawn(c)

Stop(c) ==
    \/ StopCheck(c) \/ StopSet(c) \/ StopJoinable(c) \/ StopJoin(c) \/ StopReturn(c)

MarketDataPush(p, ticks) ==
    \/ \E t \in ticks : PushMarketDataCall(p, t)
    \/ PushMarketDataAccepted(p) \/ PushMarketDataLock(p) \/ PushMarketDataEnqueue(p)

OrderBookPush(p, books) ==
    \/ \E b \in books : PushOrderBookCall(p, b)
    \/ PushOrderBookAccepted(p) \/ PushOrderBookLock(p) \/ PushOrderBookEnqueue(p)

SentimentPush(p, inputs) ==
    \/ \E s \in inputs : PushSentimentCall(p, s)
    \/ PushSentimentRejected(p) \/ PushSentimentAccepted(p)
    \/ PushSentimentAppend(p) \/ PushSentimentAppendRace(p)
    \/ PushSentimentCallback(p)

PushRejected(p) ==
    \/ PushMarketDataRejected(p) \/ PushOrderBookRejected(p) \/ PushThrown(p)

\* Spec: a pipeline that is started, one producer pushing ticks and order
\* books, valid and invalid, the worker draining them, and setMaxQueueSize.
Next ==
    \/ Start("c1")
    \/ MarketDataPush("p1", Ticks)
    \/ OrderBookPush("p1", Books)
    \/ PushRejected("p1")
    \/ \E w \in Workers : WorkerMarketData(w) \/ WorkerOrderBook(w)
    \/ \E n \in 0..MaxQueue : SetMaxQueueSize(n)

Spec == Init /\ [][Next]_vars

\* LifecycleSpec: two threads calling start() and stop() in any
\* interleaving, with a producer that keeps the worker busy.
LifecycleNext ==
    \/ \E c \in Controllers : Start(c) \/ Stop(c) \/ StopJoinRace(c)
    \/ MarketDataPush("p1", {TickA})
    \/ \E w \in Workers : WorkerMarketData(w)

LifecycleSpec == Init /\ [][LifecycleNext]_vars

\* CallbackSpec: a started pipeline with callbacks being registered and
\* replaced, two producers pushing ticks and one pushing order books.
CallbackNext ==
    \/ Start("c1")
    \/ \E p \in Producers : MarketDataPush(p, {TickA})
    \/ OrderBookPush("p1", {BookA})
    \/ \E w \in Workers : WorkerMarketData(w) \/ WorkerOrderBook(w) \/ WorkerCallbacks(w)
    \/ \E k \in CallbackKinds : SetMarketDataCallback(k)
    \/ \E k \in CallbackKinds : SetOrderBookCallback(k)

CallbackSpec == Init /\ [][CallbackNext]_vars

\* SentimentSpec: the three push operations with accepted and rejected
\* inputs, the worker, and the passing of time.
SentimentNext ==
    \/ Start("c1")
    \/ MarketDataPush("p1", {TickA, TickStale})
    \/ OrderBookPush("p1", Books)
    \/ PushRejected("p1")
    \/ SentimentPush("p1", SentimentInputs)
    \/ \E w \in Workers : WorkerMarketData(w) \/ WorkerOrderBook(w)
    \/ \E k \in {"none", "plain"} : SetSentimentCallback(k)
    \/ ClockAdvance

SentimentSpec == Init /\ [][SentimentNext]_vars

\* SentimentPushSpec: a producer pushing sentiment, accepted and rejected,
\* while another pushes ticks, the worker runs its loop, the sentiment
\* callback is set and cleared, and time passes.
SentimentPushNext ==
    \/ Start("c1")
    \/ MarketDataPush("p1", {TickA})
    \/ SentimentPush("p2", SentimentInputs)
    \/ PushThrown("p2")
    \/ \E w \in Workers : WorkerMarketData(w)
    \/ \E k \in CallbackKinds : SetSentimentCallback(k)
    \/ ClockAdvance

SentimentPushSpec == Init /\ [][SentimentPushNext]_vars

\* ConcurrentPushSpec: two producers pushing at the same time, ticks and
\* order books, valid and invalid, for the same sources, while the worker
\* drains the queues and records accuracy.
ConcurrentPushNext ==
    \/ Start("c1")
    \/ \E p \in Producers : MarketDataPush(p, {TickA, TickNoPrice})
    \/ OrderBookPush("p2", Books)
    \/ \E p \in Producers : PushRejected(p)
    \/ \E w \in Workers : WorkerMarketData(w) \/ WorkerOrderBook(w)

ConcurrentPushSpec == Init /\ [][ConcurrentPushNext]_vars

\* ReliabilitySpec: a started pipeline fed with ticks and order books of
\* one source: ticks that are accurate in price and volume, in volume only,
\* and stale, and order books valid and crossed; the worker drains them and
\* records the accuracies.
ReliabilityTicks == {TickA, TickB, TickStale}
ReliabilityBooks ==
    {Book(BookA.bids, BookA.asks, 1000, "Binance", 99),
     Book(BookCrossed.bids, BookCrossed.asks, 1000, "Binance", 99)}

ReliabilityNext ==
    \/ Start("c1")
    \/ MarketDataPush("p1", ReliabilityTicks)
    \/ OrderBookPush("p2", ReliabilityBooks)
    \/ \E p \in Producers : PushRejected(p)
    \/ \E w \in Workers : WorkerMarketData(w) \/ WorkerOrderBook(w)

ReliabilitySpec == Init /\ [][ReliabilityNext]_vars

\* OrderSpec: start() called by two threads, a producer pushing two
\* different valid ticks, and whatever workers exist draining the queue.
OrderNext ==
    \/ \E c \in Controllers : Start(c) \/ StartSpawnRace(c)
    \/ MarketDataPush("p1", {TickA, TickB})
    \/ \E w \in Workers : WorkerMarketData(w)

OrderSpec == Init /\ [][OrderNext]_vars

\* A reader that asks for a snapshot while it builds a quality report: it
\* may own metricsMutex_ when it locks dataMutex_.
ReaderInsideReport == dataMutex # Reader

\* The reader thread is inside no call: it owns no mutex.
ReaderOutside == dataMutex # Reader /\ metricsMutex # Reader

\* getLatestMarketData / getLatestOrderBook / getLatestFeatures:
\* std::lock_guard lock(dataMutex_);
ReaderSnapshotLock ==
    /\ ~terminated
    /\ ReaderOutside
    /\ dataMutex = Free
    /\ dataMutex' = Reader
    /\ UNCHANGED <<tickCount, lifecycleVars, prod, maxQueueSize, queueVars, latestVars,
                   callbackVars, indicators, sentiment, qualityTracker, saturating, indicatorSet,
                   metricsMutex>>

\* The accessor returns its copy; the guard releases dataMutex_.
ReaderSnapshotReturn ==
    /\ ~terminated
    /\ dataMutex = Reader
    /\ dataMutex' = Free
    /\ UNCHANGED <<tickCount, lifecycleVars, prod, maxQueueSize, queueVars, latestVars,
                   callbackVars, indicators, sentiment, qualityTracker, saturating, indicatorSet,
                   metricsMutex>>

\* generateDataQualityReport / getDataQualityMetrics: the tracker's accessor
\* takes std::lock_guard lock(metricsMutex_);
ReaderReportLock ==
    /\ ~terminated
    /\ ReaderOutside
    /\ metricsMutex = Free
    /\ metricsMutex' = Reader
    /\ UNCHANGED <<tickCount, lifecycleVars, prod, maxQueueSize, queueVars, dataMutex,
                   latestVars, callbackVars, indicators, sentiment, qualityTracker,
                   saturating, indicatorSet>>

\* The report is built and returned; the guard releases metricsMutex_.
ReaderReportReturn ==
    /\ ~terminated
    /\ metricsMutex = Reader
    /\ metricsMutex' = Free
    /\ UNCHANGED <<tickCount, lifecycleVars, prod, maxQueueSize, queueVars, dataMutex,
                   latestVars, callbackVars, indicators, sentiment, qualityTracker,
                   saturating, indicatorSet>>

\* The mutexes of the pipeline and the one of the tracker.
PipelineMutexes == {"marketDataMutex", "orderBookMutex", "dataMutex"}

Owner(mutex) ==
    CASE mutex = "marketDataMutex" -> marketDataMutex
      [] mutex = "orderBookMutex" -> orderBookMutex
      [] mutex = "dataMutex" -> dataMutex
      [] mutex = "metricsMutex" -> metricsMutex

Threads == {W(w) : w \in Workers} \cup {P(p) : p \in Producers} \cup {Reader}

\* The mutex the next statement of a thread locks, "none" if it locks none:
\* popFromQueue and pushToQueue lock the queue's mutex, processMarketData,
\* processOrderBook and updateFeatures lock dataMutex_, every record* call
\* locks metricsMutex_.  The reader requests and takes its lock in one step.
Requested(t) ==
    IF t[1] = "worker"
    THEN CASE worker[t[2]].pc = "md_pop_lock" -> "marketDataMutex"
           [] worker[t[2]].pc = "ob_pop_lock" -> "orderBookMutex"
           [] worker[t[2]].pc \in {"md_store", "ob_store", "features"} -> "dataMutex"
           [] worker[t[2]].pc \in {"md_accuracy", "ob_accuracy"} -> "metricsMutex"
           [] OTHER -> "none"
    ELSE IF t[1] = "producer"
    THEN CASE prod[t[2]].pc = "md_lock" -> "marketDataMutex"
           [] prod[t[2]].pc = "ob_lock" -> "orderBookMutex"
           [] prod[t[2]].pc \in {"md_validate", "ob_validate", "s_validate"}
                 -> "metricsMutex"
           [] OTHER -> "none"
    ELSE "none"

\* The thread that owns the mutex t is waiting for; Free when t waits for
\* no thread.
Blocker(t) ==
    IF t = Free \/ Requested(t) = "none" THEN Free ELSE Owner(Requested(t))

\* The thread reached from t after n steps along the waits-for relation.
RECURSIVE WaitsFor(_, _)
WaitsFor(t, n) == IF n = 0 THEN t ELSE Blocker(WaitsFor(t, n - 1))

\* LockSpec: every thread that takes a lock: two producers, the worker with
\* callbacks that do not call back into the pipeline, and a reader of
\* snapshots and quality reports.
LockNext ==
    \/ Start("c1")
    \/ MarketDataPush("p1", {TickA})
    \/ OrderBookPush("p2", {BookA})
    \/ \E w \in Workers : WorkerMarketData(w) \/ WorkerOrderBook(w)
    \/ \E w \in Workers : WorkerMarketDataCallback(w) \/ WorkerOrderBookCallback(w)
    \/ \E k \in {"none", "plain"} : SetMarketDataCallback(k)
    \/ \E k \in {"none", "plain"} : SetOrderBookCallback(k)
    \/ ReaderSnapshotLock \/ ReaderSnapshotReturn
    \/ ReaderReportLock \/ ReaderReportReturn

LockSpec == Init /\ [][LockNext]_vars

\* The scores and the clock step of the calls made on the analyzer itself.
AnalyzerScores == {-20, 10, 50}
AnalyzerClockStep == 12

\* SentimentAnalyzer::updateTwitterSentiment / updateRedditSentiment /
\* updateNewsSentiment: an observation with timestamp now() is appended.
CallUpdateSentiment(source, score) ==
    /\ ~terminated
    /\ Len(sentiment[source]) < MaxSent
    /\ sentiment' = [sentiment EXCEPT ![source] =
                        Append(@, [score |-> score, confidence |-> 80, age |-> 0])]
    /\ UNCHANGED <<tickCount, lifecycleVars, prod, maxQueueSize, queueVars, dataMutex,
                   latestVars, callbackVars, indicators, qualityTracker, saturating, indicatorSet,
                   metricsMutex>>

\* SentimentAnalyzer::clearOldData(maxAge).
CallClearOldData(maxAge) ==
    /\ ~terminated
    /\ sentiment' = clearOldData(sentiment, maxAge)
    /\ UNCHANGED <<tickCount, lifecycleVars, prod, maxQueueSize, queueVars, dataMutex,
                   latestVars, callbackVars, indicators, qualityTracker, saturating, indicatorSet,
                   metricsMutex>>

\* SentimentAnalyzer::getSentimentFeatures(), as updateFeatures calls it and
\* stores its result behind the indicator features.
CallGetSentimentFeatures ==
    /\ ~terminated
    /\ latestFeatures' = FeatureVector(indicators, sentiment)
    /\ UNCHANGED <<tickCount, lifecycleVars, prod, maxQueueSize, queueVars, dataMutex,
                   latestMarketData, latestOrderBook, callbackVars, indicators,
                   sentiment, qualityTracker, saturating, indicatorSet, metricsMutex>>

\* AnalyzerSpec: the SentimentAnalyzer on its own: observations of the three
\* sources arrive while time passes, the features are read and old
\* observations are cleared.
AnalyzerNext ==
    \/ \E source \in SentimentSources : \E score \in AnalyzerScores :
          CallUpdateSentiment(source, score)
    \/ AdvanceClock(AnalyzerClockStep)
    \/ \E maxAge \in {AnalyzerClockStep, MaxAgeHours} : CallClearOldData(maxAge)
    \/ CallGetSentimentFeatures

AnalyzerSpec == Init /\ [][AnalyzerNext]_vars

\* PruneSpec: a pipeline that is started and stopped while a producer pushes
\* sentiment, time passes in steps of twelve hours, and the worker runs its
\* loop on empty queues.
PruneInputs ==
    { [source |-> "Twitter", score |-> 50, confidence |-> 80],
      [source |-> "News", score |-> -20, confidence |-> 100] }

PruneNext ==
    \/ Start("c1") \/ Stop("c1")
    \/ \E s \in PruneInputs : PushSentimentCall("p1", s)
    \/ PushSentimentAccepted("p1")
    \/ PushSentimentAppend("p1") \/ PushSentimentAppendRace("p1")
    \/ \E w \in Workers : WorkerLoop(w) \/ WorkerWait(w)
    \/ \E w \in Workers : WorkerMarketDataLock(w) \/ WorkerMarketDataPop(w)
    \/ \E w \in Workers : WorkerOrderBookLock(w) \/ WorkerOrderBookPop(w)
    \/ \E w \in Workers : WorkerUpdateFeatures(w) \/ WorkerPrune(w)
    \/ AdvanceClock(AnalyzerClockStep)

PruneSpec == Init /\ [][PruneNext]_vars

\* update(data) on each of the indicator objects.
CallIndicatorUpdate(data) ==
    /\ ~terminated
    /\ Len(indicatorSet.rsi.values) < MaxUpdates
    /\ indicatorSet' =
          [sma |-> MovingAverage_update(indicatorSet.sma, data),
           ema |-> EMA_update(indicatorSet.ema, data),
           bollinger |-> BollingerBands_update(indicatorSet.bollinger, data),
           rsi |-> RSI_update(indicatorSet.rsi, data),
           atr |-> ATR_update(indicatorSet.atr, data)]
    /\ UNCHANGED <<tickCount, lifecycleVars, prod, maxQueueSize, queueVars, dataMutex,
                   latestVars, callbackVars, indicators, sentiment, qualityTracker,
                   saturating, metricsMutex>>

\* IndicatorSpec: the indicators on their own, fed every sequence of up to
\* MaxUpdates data points.
IndicatorNext == \E data \in IndicatorData : CallIndicatorUpdate(data)

IndicatorSpec == Init /\ [][IndicatorNext]_vars

\* TrackerSpec: the DataQualityTracker on its own, its five recording
\* operations called in any order for one source, and data points recorded
\* for a second one.  Each call runs under metricsMutex_ from start to end.
TrackerLatencies == {10, 30}

CallRecordLatency(source, latency) ==
    /\ ~terminated
    /\ metricsMutex = Free
    /\ qualityTracker' = recordLatency(qualityTracker, source, latency)
    /\ UNCHANGED <<tickCount, lifecycleVars, prod, maxQueueSize, queueVars, dataMutex,
                   latestVars, callbackVars, indicators, sentiment, saturating, indicatorSet, metricsMutex>>

CallRecordDataPoint(source, isValid) ==
    /\ ~terminated
    /\ qualityTracker[source].totalDataPoints < MaxPushes
    /\ metricsMutex = Free
    /\ qualityTracker' = recordDataPoint(qualityTracker, source, isValid)
    /\ UNCHANGED <<tickCount, lifecycleVars, prod, maxQueueSize, queueVars, dataMutex,
                   latestVars, callbackVars, indicators, sentiment, saturating, indicatorSet, metricsMutex>>

CallRecordPriceAccuracy(source, isAccurate) ==
    /\ ~terminated
    /\ qualityTracker[source].accuratePricePoints < MaxPushes
    /\ metricsMutex = Free
    /\ qualityTracker' = recordPriceAccuracy(qualityTracker, source, isAccurate)
    /\ UNCHANGED <<tickCount, lifecycleVars, prod, maxQueueSize, queueVars, dataMutex,
                   latestVars, callbackVars, indicators, sentiment, saturating, indicatorSet, metricsMutex>>

CallRecordVolumeAccuracy(source, isAccurate) ==
    /\ ~terminated
    /\ qualityTracker[source].accurateVolumePoints < MaxPushes
    /\ metricsMutex = Free
    /\ qualityTracker' = recordVolumeAccuracy(qualityTracker, source, isAccurate)
    /\ UNCHANGED <<tickCount, lifecycleVars, prod, maxQueueSize, queueVars, dataMutex,
                   latestVars, callbackVars, indicators, sentiment, saturating, indicatorSet, metricsMutex>>

CallRecordOrderBookAccuracy(source, isAccurate) ==
    /\ ~terminated
    /\ qualityTracker[source].accurateOrderBookPoints < MaxPushes
    /\ metricsMutex = Free
    /\ qualityTracker' = recordOrderBookAccuracy(qualityTracker, source, isAccurate)
    /\ UNCHANGED <<tickCount, lifecycleVars, prod, maxQueueSize, queueVars, dataMutex,
                   latestVars, callbackVars, indicators, sentiment, saturating, indicatorSet, metricsMutex>>

TrackerNext ==
    \/ \E l \in TrackerLatencies : CallRecordLatency("Binance", l)
    \/ \E b \in BOOLEAN : CallRecordDataPoint("Binance", b)
    \/ CallRecordDataPoint("Coinbase", TRUE)
    \/ \E b \in BOOLEAN : CallRecordPriceAccuracy("Binance", b)
    \/ \E b \in BOOLEAN : CallRecordVolumeAccuracy("Binance", b)
    \/ \E b \in BOOLEAN : CallRecordOrderBookAccuracy("Binance", b)

TrackerSpec == Init /\ [][TrackerNext]_vars

\* CompletenessSpec: the calls that count data points, on two sources, with
\* latency and accuracy calls in between.
CompletenessNext ==
    \/ \E isValid \in BOOLEAN : CallRecordDataPoint("Binance", isValid)
    \/ \E isValid \in BOOLEAN : CallRecordDataPoint("Coinbase", isValid)
    \/ \E isAccurate \in BOOLEAN : CallRecordPriceAccuracy("Binance", isAccurate)
    \/ \E latency \in TrackerLatencies : CallRecordLatency("Coinbase", latency)

CompletenessSpec == Init /\ [][CompletenessNext]_vars

\* HistorySpec: the operations that insert into a source's two histories:
\* recordLatency, the recording calls through calculateMetrics, and
\* updateMetrics with a caller-built sample.
CallUpdateMetrics(source, metrics) ==
    /\ ~terminated
    /\ metricsMutex = Free
    /\ qualityTracker' = updateMetrics(qualityTracker, source, metrics)
    /\ UNCHANGED <<tickCount, lifecycleVars, prod, maxQueueSize, queueVars, dataMutex,
                   latestVars, callbackVars, indicators, sentiment, saturating, indicatorSet, metricsMutex>>

HistoryNext ==
    \/ \E l \in TrackerLatencies : CallRecordLatency("Binance", l)
    \/ \E s \in MarketSources, b \in BOOLEAN : CallRecordDataPoint(s, b)
    \/ \E b \in BOOLEAN : CallRecordPriceAccuracy("Binance", b)
    \/ CallUpdateMetrics("Binance", DefaultMetrics)

HistorySpec == Init /\ [][HistoryNext]_vars

\* ValidationSpec: one producer pushing ticks and order books at the limits
\* of the validation rules into a pipeline that is not started.
ValidationNext ==
    \/ MarketDataPush("p1", ValidationTicks)
    \/ OrderBookPush("p1", ValidationBooks)
    \/ PushRejected("p1")

ValidationSpec == Init /\ [][ValidationNext]_vars

\* OrderBookSpec: a started pipeline and one producer pushing ticks and
\* order books, with and without empty sides; the worker drains them.
OneSidedBooks ==
    { BookA, BookCrossed,
      Book(<<>>, <<Level(101, 1)>>, 1000, "Coinbase", 99),
      Book(<<Level(100, 1)>>, <<>>, 1000, "Coinbase", 99),
      Book(<<>>, <<>>, 1000, "Coinbase", 99) }

OrderBookNext ==
    \/ Start("c1")
    \/ MarketDataPush("p1", {TickA, TickNoPrice})
    \/ OrderBookPush("p1", OneSidedBooks)
    \/ PushRejected("p1")
    \/ \E w \in Workers : WorkerMarketData(w) \/ WorkerOrderBook(w)

OrderBookSpec == Init /\ [][OrderBookNext]_vars

\* LiveSpec: one thread that starts and stops the pipeline while a producer
\* pushes valid ticks without end.  The tracker counters saturate, which
\* keeps the state space finite; they steer no control flow.  The scheduler
\* is fair to every thread: the worker, the thread in stop(), and the
\* producer inside a push (whether it calls again is its own choice); a
\* thread that finds a mutex free again and again gets it in the end.
InitLive == InitCommon /\ saturating = TRUE

LiveNext ==
    \/ Start("c1") \/ Stop("c1")
    \/ MarketDataPush("p1", {TickA})
    \/ \E w \in Workers : WorkerMarketData(w)

LiveSpec ==
    /\ InitLive
    /\ [][LiveNext]_vars
    /\ SF_vars(\E w \in Workers : WorkerMarketData(w))
    /\ WF_vars(Stop("c1"))
    /\ SF_vars(PushMarketDataAccepted("p1") \/ PushMarketDataLock("p1")
                   \/ PushMarketDataEnqueue("p1"))

\* DrainSpec: a pipeline that is started and stays running, one producer
\* pushing valid ticks and another pushing valid order books without end.
\* The counters saturate as in LiveSpec, and the scheduler is fair to every
\* thread in the same way.
DrainNext ==
    \/ Start("c1")
    \/ MarketDataPush("p1", {TickA})
    \/ OrderBookPush("p2", {BookA})
    \/ \E w \in Workers : WorkerMarketData(w) \/ WorkerOrderBook(w)

DrainSpec ==
    /\ InitLive
    /\ [][DrainNext]_vars
    /\ WF_vars(Start("c1"))
    /\ SF_vars(\E w \in Workers : WorkerMarketData(w) \/ WorkerOrderBook(w))
    /\ SF_vars(PushMarketDataAccepted("p1") \/ PushMarketDataLock("p1")
                   \/ PushMarketDataEnqueue("p1"))
    /\ SF_vars(PushOrderBookAccepted("p2") \/ PushOrderBookLock("p2")
                   \/ PushOrderBookEnqueue("p2"))

(***************************************************************************)
(* Properties of start() and stop().                                       *)
(***************************************************************************)
\* C1: whenever a call to stop() returns, every worker that was live when
\* the call was made has fully exited, also when two threads call stop()
\* concurrently on a running pipeline.
StopReturnsAfterWorkerExit ==
    \A c \in Controllers :
        ctl[c].pc = "stop_ret" =>
            \A w \in ctl[c].seen : worker[w].pc = "exited"

\* C2: under any interleaving of start() calls at most one background worker
\* exists at any moment (a second one exists from the moment the handle is
\* about to be overwritten while its worker is still live).
AtMostOneWorker ==
    Cardinality(LiveWorkers) <= 1

\* C3: under fair scheduling a stop() call on a running pipeline eventually
\* returns, even when a producer keeps pushing valid items for the whole
\* duration of the call.
StopEventuallyReturns ==
    (ctl["c1"].pc = "stop_set") ~> (ctl["c1"].pc = "stop_ret")

(***************************************************************************)
(* Properties of the callbacks and the locks.                              *)
(***************************************************************************)
\* C4: whenever the market-data or order-book callback is executing, the
\* worker holds no pipeline lock, in particular not dataMutex_.
CallbackOutsideLocks ==
    \A w \in Workers :
        worker[w].pc \in {"md_callback", "ob_callback"} =>
            /\ dataMutex # W(w)
            /\ marketDataMutex # W(w)
            /\ orderBookMutex # W(w)

(***************************************************************************)
(* Properties of the bounded queues.                                       *)
(***************************************************************************)
\* C5: in every reachable state each of the two queues holds at most
\* maxQueueSize items.
QueuesWithinCapacity ==
    /\ Len(marketDataQueue) <= maxQueueSize
    /\ Len(orderBookQueue) <= maxQueueSize

\* C6: a push into a queue that holds maxQueueSize items leaves it holding
\* exactly the last maxQueueSize items pushed, in push order (the oldest is
\* the one dropped), and raises no error because of the overflow.
OverflowKeepsNewest ==
    [][\A p \in Producers :
          /\ (prod[p].pc = "md_enqueue" /\ prod'[p] # prod[p]
                 /\ Len(marketDataQueue) = maxQueueSize) =>
                LET pushed == Append(marketDataQueue, prod[p].tick)
                IN /\ ~terminated'
                   /\ marketDataQueue' =
                         SubSeq(pushed, Len(pushed) - maxQueueSize + 1, Len(pushed))
          /\ (prod[p].pc = "ob_enqueue" /\ prod'[p] # prod[p]
                 /\ Len(orderBookQueue) = maxQueueSize) =>
                LET pushed == Append(orderBookQueue, prod[p].book)
                IN /\ ~terminated'
                   /\ orderBookQueue' =
                         SubSeq(pushed, Len(pushed) - maxQueueSize + 1, Len(pushed))
      ]_vars

\* C7: a pushMarketData or pushOrderBook call never waits for the worker.
\* While the process lives, a producer inside a push can always take its
\* next step, except at the lock of pushToQueue while the queue mutex is
\* held; and the holder of a queue mutex is then inside the critical section
\* of pushToQueue or popFromQueue, which it leaves in one step that is always
\* possible: never a worker that is processing an item or running a
\* callback.
PushNeverWaitsForWorker ==
    ~terminated =>
        \A p \in Producers :
            /\ prod[p].pc = "md_validate" =>
                  ENABLED (PushMarketDataRejected(p) \/ PushMarketDataAccepted(p))
            /\ prod[p].pc = "ob_validate" =>
                  ENABLED (PushOrderBookRejected(p) \/ PushOrderBookAccepted(p))
            /\ prod[p].pc = "md_enqueue" => ENABLED PushMarketDataEnqueue(p)
            /\ prod[p].pc = "ob_enqueue" => ENABLED PushOrderBookEnqueue(p)
            /\ prod[p].pc = "md_lock" =>
                  \/ ENABLED PushMarketDataLock(p)
                  \/ \E q \in Producers \ {p} :
                        /\ marketDataMutex = P(q)
                        /\ prod[q].pc = "md_enqueue"
                        /\ ENABLED PushMarketDataEnqueue(q)
                  \/ \E w \in Workers :
                        /\ marketDataMutex = W(w)
                        /\ worker[w].pc = "md_pop"
                        /\ ENABLED WorkerMarketDataPop(w)
            /\ prod[p].pc = "ob_lock" =>
                  \/ ENABLED PushOrderBookLock(p)
                  \/ \E q \in Producers \ {p} :
                        /\ orderBookMutex = P(q)
                        /\ prod[q].pc = "ob_enqueue"
                        /\ ENABLED PushOrderBookEnqueue(q)
                  \/ \E w \in Workers :
                        /\ orderBookMutex = W(w)
                        /\ worker[w].pc = "ob_pop"
                        /\ ENABLED WorkerOrderBookPop(w)

\* C7, reached: a producer is about to enqueue into a full queue while the
\* worker is running the market-data callback on an item it popped.
PushDuringCallback ==
    \E p \in Producers : \E w \in Workers :
        /\ prod[p].pc = "md_enqueue"
        /\ Len(marketDataQueue) = maxQueueSize
        /\ worker[w].pc = "md_callback"
        /\ dataMutex = W(w)

(***************************************************************************)
(* Properties of the push operations and the quality tracker.              *)
(***************************************************************************)
\* C8: a pushMarketData or pushOrderBook call whose item fails validation
\* raises an error and enqueues nothing: both queues, the latest snapshots,
\* the indicator state and every latency history are as before; the only
\* change is one rejected data point recorded for the item's source.
RejectedPushOnlyRecordsRejection ==
    [][\A p \in Producers :
          LET failsMarketData ==
                  prod[p].pc = "md_validate" /\ ~validateMarketData(prod[p].tick)
              failsOrderBook ==
                  prod[p].pc = "ob_validate" /\ ~validateOrderBook(prod[p].book)
              src == IF prod[p].pc = "md_validate" THEN prod[p].tick.source
                     ELSE prod[p].book.source
          IN ((failsMarketData \/ failsOrderBook) /\ prod'[p] # prod[p]) =>
                /\ prod'[p].pc = "threw"
                /\ UNCHANGED <<marketDataQueue, orderBookQueue, latestVars, indicators>>
                /\ \A s \in Sources :
                      qualityTracker'[s].latencyHistory = qualityTracker[s].latencyHistory
                /\ \A s \in Sources \ {src} : qualityTracker'[s] = qualityTracker[s]
                /\ qualityTracker'[src].rejectedDataPoints =
                      qualityTracker[src].rejectedDataPoints + 1
                /\ qualityTracker'[src].totalDataPoints =
                      qualityTracker[src].totalDataPoints + 1
                /\ qualityTracker'[src].validDataPoints =
                      qualityTracker[src].validDataPoints
                /\ qualityTracker'[src].accuratePricePoints =
                      qualityTracker[src].accuratePricePoints
                /\ qualityTracker'[src].accurateVolumePoints =
                      qualityTracker[src].accurateVolumePoints
                /\ qualityTracker'[src].accurateOrderBookPoints =
                      qualityTracker[src].accurateOrderBookPoints
      ]_vars

\* C8, reached: a push has just been rejected with items waiting in a queue
\* and a latency history that is not empty.
RejectedPushSeen ==
    \E p \in Producers : \E s \in MarketSources :
        /\ prod[p].pc = "threw"
        /\ qualityTracker[s].rejectedDataPoints >= 1
        /\ marketDataQueue # <<>>
        /\ \E t \in MarketSources : qualityTracker[t].latencyHistory # <<>>

\* C9: every rejected push call, whichever of the three push operations it
\* is, increases the rejected count of the named source by exactly one.
EveryRejectionRecorded ==
    [][\A p \in Producers :
          (prod[p].pc \in {"md_validate", "ob_validate", "s_validate"}
              /\ prod'[p].pc = "threw") =>
             LET src == CASE prod[p].pc = "md_validate" -> prod[p].tick.source
                          [] prod[p].pc = "ob_validate" -> prod[p].book.source
                          [] OTHER -> prod[p].sent.source
             IN qualityTracker'[src].rejectedDataPoints =
                    qualityTracker[src].rejectedDataPoints + 1
      ]_vars

\* C10: a pushMarketData or pushOrderBook call whose item passes validation
\* appends exactly one latency sample (now - timestamp) for the source,
\* increases the source's valid and total counts by one each, leaves its
\* rejected count unchanged, and places the item at the tail of the queue of
\* its type.
AcceptedPushRecordedAndQueued ==
    [][\A p \in Producers :
          /\ (prod[p].pc \in {"md_validate", "ob_validate"}
                 /\ prod'[p].pc \in {"md_lock", "ob_lock"}) =>
                LET item == IF prod[p].pc = "md_validate" THEN prod[p].tick
                            ELSE prod[p].book
                    before == qualityTracker[item.source]
                    after == qualityTracker'[item.source]
                IN /\ after.latencyHistory =
                         PushBounded(before.latencyHistory, item.ageMs, HistorySize)
                   /\ after.validDataPoints = before.validDataPoints + 1
                   /\ after.totalDataPoints = before.totalDataPoints + 1
                   /\ after.rejectedDataPoints = before.rejectedDataPoints
          /\ (prod[p].pc = "md_enqueue" /\ prod'[p] # prod[p]) =>
                /\ ~terminated'
                /\ marketDataQueue' # <<>>
                /\ marketDataQueue'[Len(marketDataQueue')] = prod[p].tick
          /\ (prod[p].pc = "ob_enqueue" /\ prod'[p] # prod[p]) =>
                /\ ~terminated'
                /\ orderBookQueue' # <<>>
                /\ orderBookQueue'[Len(orderBookQueue')] = prod[p].book
      ]_vars

(***************************************************************************)
(* Properties of the validation rules.                                     *)
(***************************************************************************)
\* C11: freshness is decided on the exact age in milliseconds: an item is
\* rejected whenever now - timestamp is greater than 60 seconds, and an item
\* of at most 60 seconds that is otherwise valid is accepted.
FreshnessOnExactAge ==
    [][\A p \in Producers :
          /\ (prod[p].pc = "md_validate" /\ prod'[p] # prod[p]) =>
                /\ prod[p].tick.ageMs > FreshnessSeconds * 1000 =>
                      prod'[p].pc = "threw"
                /\ (/\ prod[p].tick.ageMs <= FreshnessSeconds * 1000
                    /\ checkDataConsistency(prod[p].tick)
                    /\ prod[p].tick.confidence \in 0..100) =>
                      prod'[p].pc = "md_lock"
          /\ (prod[p].pc = "ob_validate" /\ prod'[p] # prod[p]) =>
                /\ prod[p].book.ageMs > FreshnessSeconds * 1000 =>
                      prod'[p].pc = "threw"
                /\ (/\ prod[p].book.ageMs <= FreshnessSeconds * 1000
                    /\ checkOrderBookConsistency(prod[p].book)
                    /\ prod[p].book.confidence \in 0..100) =>
                      prod'[p].pc = "ob_lock"
      ]_vars

\* C12: a fresh tick is accepted if and only if its prices are > 0, its
\* volume is >= 0 and its confidence is in [0,1]; no relation between its
\* fields causes a rejection.
TickAcceptedOnPriceVolumeConfidence ==
    [][\A p \in Producers :
          (/\ prod[p].pc = "md_validate" /\ prod'[p] # prod[p]
           /\ prod[p].tick.ageMs <= FreshnessSeconds * 1000) =>
             LET t == prod[p].tick
             IN prod'[p].pc = "md_lock" <=>
                   /\ t.open > 0 /\ t.high > 0 /\ t.low > 0 /\ t.close > 0
                   /\ t.volume >= 0
                   /\ t.confidence \in 0..100
      ]_vars

\* C14: an order book whose bid prices are not strictly decreasing or whose
\* ask prices are not strictly increasing is rejected, at every position of
\* the level list.
UnorderedBookRejected ==
    [][\A p \in Producers :
          (prod[p].pc = "ob_validate" /\ prod'[p] # prod[p]) =>
             LET b == prod[p].book
                 bidsDecreasing ==
                     \A i \in 1..(Len(b.bids) - 1) : b.bids[i].price > b.bids[i + 1].price
                 asksIncreasing ==
                     \A i \in 1..(Len(b.asks) - 1) : b.asks[i].price < b.asks[i + 1].price
             IN ~(bidsDecreasing /\ asksIncreasing) => prod'[p].pc = "threw"
      ]_vars

\* C15: validateOrderBook rejects every book that is crossed or locked (its
\* best bid, the highest bid price, is >= its best ask, the lowest ask
\* price), that has a level with price <= 0 or quantity <= 0, or whose
\* confidence is outside [0,1]; and it accepts the fresh book with bids
\* [100,99] and asks [101,102] and positive quantities.
MalformedBookRejected ==
    [][\A p \in Producers :
          (prod[p].pc = "ob_validate" /\ prod'[p] # prod[p]) =>
             LET b == prod[p].book
                 crossed ==
                     \E i \in 1..Len(b.bids) : \E j \in 1..Len(b.asks) :
                         b.bids[i].price >= b.asks[j].price
                 badLevel ==
                     \/ \E i \in 1..Len(b.bids) :
                           b.bids[i].price <= 0 \/ b.bids[i].quantity <= 0
                     \/ \E j \in 1..Len(b.asks) :
                           b.asks[j].price <= 0 \/ b.asks[j].quantity <= 0
                 reference ==
                     /\ b.bids = <<Level(100, 1), Level(99, 1)>>
                     /\ b.asks = <<Level(101, 1), Level(102, 1)>>
                     /\ b.ageMs <= FreshnessSeconds * 1000
                     /\ b.confidence \in 0..100
             IN /\ (crossed \/ badLevel \/ b.confidence \notin 0..100) =>
                      prod'[p].pc = "threw"
                /\ reference => prod'[p].pc = "ob_lock"
      ]_vars

\* C13: an order book with an empty bid side or an empty ask side is
\* rejected by pushOrderBook and never enqueued, so the order book the
\* indicator engine holds after a drain has both sides non-empty.
OneSidedBookRejected ==
    /\ \A p \in Producers :
          prod[p].pc \in {"ob_lock", "ob_enqueue"} =>
              prod[p].book.bids # <<>> /\ prod[p].book.asks # <<>>
    /\ \A i \in 1..Len(orderBookQueue) :
          orderBookQueue[i].bids # <<>> /\ orderBookQueue[i].asks # <<>>
    /\ indicators.currentOrderBook # NoBook =>
          /\ indicators.currentOrderBook.bids # <<>>
          /\ indicators.currentOrderBook.asks # <<>>

(***************************************************************************)
(* Properties of the background loop.                                      *)
(***************************************************************************)
\* C16: while the pipeline is running and stays running, an accepted valid
\* tick waiting in the queue is eventually processed under fair scheduling:
\* it becomes the latest market data, and the latest quality sample of its
\* source shows it as a valid data point and no rejected one.
AcceptedTickEventuallyProcessed ==
    (running /\ \E i \in 1..Len(marketDataQueue) : marketDataQueue[i] = TickA)
        ~> (/\ latestMarketData = TickA
            /\ LET history == qualityTracker[TickA.source].history
               IN /\ history # <<>>
                  /\ history[Len(history)].validDataPoints >= 1
                  /\ history[Len(history)].rejectedDataPoints = 0)

\* C17: every tick accepted by pushMarketData is consumed exactly once: it
\* is handed to the indicator engine and to the market-data callback never
\* twice and, once nothing is waiting or in flight any more, never zero
\* times.
TickConsumedExactlyOnce ==
    /\ tickCount.indicator <= tickCount.accepted
    /\ tickCount.callback <= tickCount.indicator
    /\ (/\ marketDataQueue = <<>>
        /\ \A p \in Producers : prod[p].pc \notin {"md_lock", "md_enqueue"}
        /\ \A w \in Workers : worker[w].pc # "md_update") =>
            tickCount.indicator = tickCount.accepted

\* C17, amended: every accepted tick is consumed at most once.  Each one is
\* waiting (in its producer's pushToQueue, in the queue, or popped by the
\* worker), or was dropped from the queue by a later push, or was handed to
\* the indicator engine exactly once; and the callback is invoked at most
\* once per tick handed over.
TickConsumedAtMostOnce ==
    /\ tickCount.accepted =
          tickCount.indicator + tickCount.dropped + Len(marketDataQueue)
              + Cardinality({p \in Producers : prod[p].pc \in {"md_lock", "md_enqueue"}})
              + Cardinality({w \in Workers : worker[w].pc = "md_update"})
    /\ tickCount.callback <= tickCount.indicator

\* C17, reached: a tick has been dropped by an overflow, another has been
\* handed to the indicator engine and to the callback.
TickDroppedAndTickConsumed ==
    /\ tickCount.dropped >= 1
    /\ tickCount.indicator >= 1
    /\ tickCount.callback >= 1

\* C18: when an accepted sentiment push returns, the quality tracker holds
\* a valid data point for the source of the push.
SentimentPushRecordsDataPoint ==
    [][\A p \in Producers :
          (prod[p].pc \in {"s_append", "s_callback"} /\ prod'[p].pc = "idle") =>
              LET src == prod[p].sent.source IN
              /\ qualityTracker'[src].validDataPoints >= 1
              /\ qualityTracker'[src].totalDataPoints >= 1]_vars

SentimentListsNeverShared ==
    \A p \in Producers :
        prod[p].pc = "s_append" =>
            \A w \in Workers : ~WorkerAccessesSentiment(w)

\* The lifecycle state the pipeline is in: Running while running_ is set,
\* Stopping from the clearing of running_ until the worker has been joined,
\* Idle otherwise.
LifecycleState ==
    IF running THEN "Running"
    ELSE IF handle # NoWorker THEN "Stopping" ELSE "Idle"

\* C21: the lifecycle only moves Idle -> Running -> Stopping -> Idle: no
\* step takes the pipeline from Stopping back to Running, from Running to
\* Idle or from Idle to Stopping, and a start() spawns its worker onto a
\* handle that is not joinable.
LifecycleOnlyMovesInOrder ==
    [][/\ \/ LifecycleState' = LifecycleState
          \/ <<LifecycleState, LifecycleState'>> \in
                 { <<"Idle", "Running">>, <<"Running", "Stopping">>,
                   <<"Stopping", "Idle">> }
       /\ ~terminated']_vars

ReliabilityWithinUnitInterval ==
    \A s \in Sources :
        \A i \in 1..Len(qualityTracker[s].history) :
            LET r == qualityTracker[s].history[i].sourceReliability IN
            0 <= r[1] /\ r[1] <= r[2]

\* C24: the reliability in a source's latest sample equals (completeness*0.3
\* + priceAccuracy*0.3 + volumeAccuracy*0.2 + orderBookAccuracy*0.2)/100 of
\* the source's current counts, each component a percentage of
\* totalDataPoints; with all four counts equal to totalDataPoints it is
\* exactly 1.
ReliabilityIsWeightedComposite ==
    \A s \in Sources :
        LET m == qualityTracker[s] IN
        m.totalDataPoints > 0 =>
            LET r == m.history[Len(m.history)].sourceReliability
                weighted == 3 * m.validDataPoints + 3 * m.accuratePricePoints
                                + 2 * m.accurateVolumePoints
                                + 2 * m.accurateOrderBookPoints
            IN /\ r[2] > 0
               /\ r[1] * 10 * m.totalDataPoints = weighted * r[2]
               /\ (/\ m.validDataPoints = m.totalDataPoints
                   /\ m.accuratePricePoints = m.totalDataPoints
                   /\ m.accurateVolumePoints = m.totalDataPoints
                   /\ m.accurateOrderBookPoints = m.totalDataPoints) => r[1] = r[2]

\* C24, reached: two data points of a source, all valid and accurate in
\* price, volume and order book; the latest sample's reliability is 1.
FullyReliableSource ==
    LET m == qualityTracker["Binance"] IN
    /\ m.totalDataPoints = 2
    /\ m.validDataPoints = 2
    /\ m.accuratePricePoints = 2
    /\ m.accurateVolumePoints = 2
    /\ m.accurateOrderBookPoints = 2
    /\ m.history[Len(m.history)].sourceReliability = <<20, 20>>

\* C25: each source's sample history and latency history hold at most
\* historySize entries, and every insertion appends at the end, evicting
\* exactly the oldest entry when the history was at capacity; the sample of
\* a newly recorded data point is the last entry.
HistoriesBoundedOldestEvicted ==
    [][\A s \in Sources :
          LET h == qualityTracker[s].history
              hn == qualityTracker'[s].history
              l == qualityTracker[s].latencyHistory
              ln == qualityTracker'[s].latencyHistory
          IN /\ Len(hn) <= HistorySize
             /\ Len(ln) <= HistorySize
             /\ (hn # h \/ qualityTracker'[s].totalDataPoints
                               # qualityTracker[s].totalDataPoints) =>
                   /\ hn # <<>>
                   /\ hn = IF Len(h) < HistorySize
                           THEN Append(h, hn[Len(hn)])
                           ELSE Append(Tail(h), hn[Len(hn)])
             /\ qualityTracker'[s].totalDataPoints # qualityTracker[s].totalDataPoints =>
                   hn[Len(hn)].totalDataPoints = qualityTracker'[s].totalDataPoints
             /\ ln # l =>
                   /\ ln # <<>>
                   /\ ln = IF Len(l) < HistorySize
                           THEN Append(l, ln[Len(ln)])
                           ELSE Append(Tail(l), ln[Len(ln)])]_vars

\* C25, reached: both histories of a source are at capacity and have evicted:
\* the sample of the first data point is gone, and the latency history holds
\* two different latencies of which the older one entered after a third.
HistoriesAtCapacityAfterEviction ==
    LET m == qualityTracker["Binance"] IN
    /\ Len(m.history) = HistorySize
    /\ m.history[1].totalDataPoints >= 2
    /\ Len(m.latencyHistory) = HistorySize
    /\ m.latencyHistory[1] # m.latencyHistory[HistorySize]
    /\ m.history[HistorySize].latencyCount = HistorySize
    /\ m.history[HistorySize] # m.history[1]

\* C26: concurrent pushes lose no update.  For each source the tracker's
\* totalDataPoints, plus the pushes naming it that have not recorded yet,
\* equals the number of pushes made for it, and valid + rejected equals
\* totalDataPoints; so once every call has returned, totalDataPoints is the
\* number of pushes.
NoDataPointLost ==
    \A s \in Sources :
        LET m == qualityTracker[s]
            validating == {p \in Producers :
                              \/ prod[p].pc = "md_validate" /\ prod[p].tick.source = s
                              \/ prod[p].pc = "ob_validate" /\ prod[p].book.source = s}
        IN /\ m.totalDataPoints + Cardinality(validating) = tickCount.pushes[s]
           /\ m.validDataPoints + m.rejectedDataPoints = m.totalDataPoints
           /\ (\A p \in Producers : prod[p].pc = "idle") =>
                  m.totalDataPoints = tickCount.pushes[s]

\* C26, reached: both producers have pushed for the same source while the
\* worker was recording accuracy, every call has returned, and the source
\* has valid and rejected data points.
ConcurrentPushesAllRecorded ==
    /\ \A p \in Producers : prod[p].pc = "idle"
    /\ tickCount.pushes["Coinbase"] = 3
    /\ qualityTracker["Coinbase"].validDataPoints >= 1
    /\ qualityTracker["Coinbase"].rejectedDataPoints >= 1
    /\ qualityTracker["Binance"].accuratePricePoints >= 1

\* C27: a pass of the background loop removes at most one item from the
\* market-data queue and at most one from the order-book queue: no worker
\* pops a second item in the same drain loop.
OneItemPerQueuePerPass ==
    \A w \in Workers : tickCount.drained[w] <= 1

\* C28: when the callback for a drained tick runs, the tracker already
\* contains that tick's accuracy samples: for ticks above the price
\* threshold, as many accurate price points as ticks handed to the indicator
\* engine, this one included.
AccuracyRecordedBeforeCallback ==
    \A w \in Workers :
        (/\ worker[w].pc = "md_callback"
         /\ worker[w].data.confidence >= PriceAccuracyThreshold) =>
            qualityTracker[worker[w].data.source].accuratePricePoints
                >= tickCount.indicator

\* C29: lock acquisition is acyclic.  A thread that owns the tracker lock
\* requests no lock and acquires no pipeline lock, no thread owns two
\* pipeline locks at once, and, with callbacks that do not call back into
\* the pipeline, no thread waits for itself along the waits-for relation: no
\* reachable state is a deadlock among producers, reader and worker.
LockAcquisitionAcyclic ==
    /\ [](\A t \in Threads :
              /\ (metricsMutex = t => Requested(t) = "none")
              /\ Cardinality({mutex \in PipelineMutexes : Owner(mutex) = t}) <= 1
              /\ \A n \in 1..Cardinality(Threads) : WaitsFor(t, n) # t)
    /\ [][\A mutex \in PipelineMutexes :
              (metricsMutex # Free /\ Owner(mutex)' = metricsMutex)
                  => Owner(mutex) = metricsMutex]_vars

\* C29, reached: the worker owns dataMutex_ and waits for the tracker lock,
\* which the reader owns, while one producer waits for the tracker lock too
\* and the other is inside pushToQueue.
TrackerLockTakenInsideStateLock ==
    \E w \in Workers :
        /\ worker[w].pc = "md_accuracy"
        /\ dataMutex = W(w)
        /\ metricsMutex = Reader
        /\ prod["p1"].pc = "md_validate"
        /\ prod["p2"].pc = "ob_enqueue"
        /\ orderBookMutex = P("p2")
        /\ marketDataCallback = "plain"

\* C30: every mutating tracker call (recordLatency, recordDataPoint,
\* recordPriceAccuracy, recordVolumeAccuracy, recordOrderBookAccuracy)
\* appends exactly one sample to the history of the source it names, the
\* first call ever made for that source included: after the call the
\* history is the old one with one sample pushed, the oldest evicted at
\* capacity.
EveryCallAppendsOneSample ==
    [][\A s \in Sources :
          qualityTracker'[s] # qualityTracker[s] =>
              /\ qualityTracker'[s].history # <<>>
              /\ qualityTracker'[s].history =
                    PushBounded(qualityTracker[s].history,
                                qualityTracker'[s].history[Len(qualityTracker'[s].history)],
                                HistorySize)
      ]_vars

(***************************************************************************)
(* Properties of the quality samples.                                      *)
(***************************************************************************)
\* The double 100.0.
Hundred == DoubleDivide(100, 1)

\* Doubles of one binade that are equal or adjacent: at most one unit in
\* the last place apart.
WithinOneUlp(x, y) ==
    /\ x.exp = y.exp
    /\ \/ x.bits = y.bits
       \/ Increment(x.bits) = y.bits
       \/ Increment(y.bits) = x.bits

\* C31, as stated: for every source totalDataPoints = validDataPoints +
\* rejectedDataPoints, and in every recorded sample dataCompleteness +
\* missingDataRate is exactly 100.
CompletenessAndMissingRateAreHundred ==
    \A s \in Sources :
        /\ qualityTracker[s].totalDataPoints =
              qualityTracker[s].validDataPoints + qualityTracker[s].rejectedDataPoints
        /\ \A i \in DOMAIN qualityTracker[s].history :
              DoublePlus(dataCompleteness(qualityTracker[s].history[i]),
                         missingDataRate(qualityTracker[s].history[i])) = Hundred

\* C31, amended: for every source totalDataPoints = validDataPoints +
\* rejectedDataPoints, every sample the tracker computed stores counters
\* with the same relation, and its dataCompleteness + missingDataRate is 100
\* up to the rounding of the doubles: at most one unit in the last place
\* (2^-46) away from 100.
CompletenessAndMissingRateNearHundred ==
    \A s \in Sources :
        /\ qualityTracker[s].totalDataPoints =
              qualityTracker[s].validDataPoints + qualityTracker[s].rejectedDataPoints
        /\ \A i \in DOMAIN qualityTracker[s].history :
              LET sample == qualityTracker[s].history[i]
              IN  /\ sample.totalDataPoints =
                        sample.validDataPoints + sample.rejectedDataPoints
                  /\ WithinOneUlp(DoublePlus(dataCompleteness(sample),
                                             missingDataRate(sample)),
                                  Hundred)

\* C31, reached: a sample computed from one valid and two rejected data
\* points, whose two percentages do not add up to the double 100.
SampleOfThirdsRecorded ==
    \E s \in Sources : \E i \in DOMAIN qualityTracker[s].history :
        LET sample == qualityTracker[s].history[i]
        IN  /\ sample.validDataPoints = 1
            /\ sample.rejectedDataPoints = 2
            /\ DoublePlus(dataCompleteness(sample), missingDataRate(sample)) # Hundred

(***************************************************************************)
(* Properties of the sentiment analyzer.                                   *)
(***************************************************************************)
\* C32: the momentum is the score of the most recent observation minus the
\* score of the 20th-most-recent one (of the oldest one when fewer than 20
\* exist), over the three sources merged by time, and 0 with fewer than two
\* observations; so it is positive when the scores have risen.  Stated for
\* observations of pairwise different timestamps.
MomentumIsNewestMinusOldest ==
    LET features == getSentimentFeatures(sentiment)
    IN  \A r \in getRecentSentiments(sentiment, RecentCount) :
            (\A i, j \in 1..Len(r) : i < j => r[i].age < r[j].age) =>
                features[Len(features)][2] =
                    {IF Len(r) >= 2 THEN r[1].score - r[Len(r)].score ELSE 0}

\* The observations clearOldData is to keep.
NotOlderThanMaxAge(item) == item.age <= MaxAgeHours

EMAReportsRunningValue ==
    [][indicatorSet'.ema # indicatorSet.ema =>
          LET close == indicatorSet'.rsi.values[Len(indicatorSet'.rsi.values)]
          IN  RatEq(MovingAverage_getValue(indicatorSet'.ema),
                    IF indicatorSet.ema = <<>> THEN <<close, 1>>
                    ELSE Smoothed(close, MovingAverage_getValue(indicatorSet.ema)))
      ]_vars

\* C35: the RSI value lies in [0, 100] after any sequence of ticks; it is
\* exactly 100 after two or more ticks with strictly increasing close,
\* exactly 0 after two or more ticks with strictly decreasing close, and 100
\* as long as no price change has been observed (no tick, one tick, or
\* ticks that all carry the same close).
StrictlyIncreasing(closes) ==
    Len(closes) >= 2 /\ \A i \in 1..(Len(closes) - 1) : closes[i] < closes[i + 1]

StrictlyDecreasing(closes) ==
    Len(closes) >= 2 /\ \A i \in 1..(Len(closes) - 1) : closes[i] > closes[i + 1]

RSIBoundaries ==
    LET rsi == indicatorSet.rsi
        value == RSI_getValue(rsi)
    IN  /\ value[2] > 0
        /\ RatLeq(<<0, 1>>, value) /\ RatLeq(value, <<100, 1>>)
        /\ StrictlyIncreasing(rsi.values) => RatEq(value, <<100, 1>>)
        /\ StrictlyDecreasing(rsi.values) => RatEq(value, <<0, 1>>)
        /\ (\A i \in 1..Len(rsi.values) : rsi.values[i] = rsi.values[1])
               => RatEq(value, <<100, 1>>)

\* C35 witness: four ticks with strictly decreasing close, more changes than
\* the period keeps, after which the RSI reports 0.
RSIOfFallingPrices ==
    /\ indicatorSet.rsi.values = <<40, 30, 20, 10>>
    /\ RatEq(RSI_getValue(indicatorSet.rsi), <<0, 1>>)

\* C36: after any number of updates every array an indicator keeps (the
\* SMA, EMA and Bollinger values, the RSI gains, losses and close history,
\* the ATR true ranges and close history) has at most period elements.
IndicatorArrayLengths ==
    {Len(indicatorSet.sma), Len(indicatorSet.ema),
     Len(indicatorSet.bollinger.values), Len(indicatorSet.bollinger.sma),
     Len(indicatorSet.rsi.gains), Len(indicatorSet.rsi.losses),
     Len(indicatorSet.rsi.values),
     Len(indicatorSet.atr.trueRanges), Len(indicatorSet.atr.values)}

WindowsWithinPeriod == \A length \in IndicatorArrayLengths : length <= IndicatorPeriod

\* C37: for a source fed only through pushMarketData / pushOrderBook and
\* the background loop, accurateVolumePoints <= validDataPoints and
\* accuratePricePoints + accurateOrderBookPoints <= validDataPoints <=
\* totalDataPoints in every state, and so no sourceReliability, current or
\* in the history, exceeds 0.8.
PipelineFedReliabilityAtMostFourFifths ==
    \A source \in MarketSources :
        LET m == qualityTracker[source]
        IN  /\ m.accurateVolumePoints <= m.validDataPoints
            /\ m.accuratePricePoints + m.accurateOrderBookPoints <= m.validDataPoints
            /\ m.validDataPoints <= m.totalDataPoints
            /\ m.totalDataPoints > 0 => RatLeq(sourceReliability(m), <<4, 5>>)
            /\ \A i \in 1..Len(m.history) :
                   RatLeq(m.history[i].sourceReliability, <<4, 5>>)

\* C37 witness: a source whose ticks and order books were all accepted and
\* all processed as accurate, with a recorded reliability below 0.8 because
\* an order book counts for the order-book accuracy only.
TicksAndBooksAllAccurate ==
    \E source \in MarketSources :
        LET m == qualityTracker[source]
        IN  /\ m.accuratePricePoints >= 1 /\ m.accurateOrderBookPoints >= 1
            /\ m.accuratePricePoints + m.accurateOrderBookPoints = m.validDataPoints
            /\ m.validDataPoints = m.totalDataPoints
            /\ m.history # <<>>
            /\ m.history[Len(m.history)].sourceReliability = sourceReliability(m)
            /\ ~RatLeq(<<4, 5>>, sourceReliability(m))

\* C38: the items of a queue are processed in the order in which they were
\* accepted, so once a queue has been drained (it is empty and no worker
\* holds an item popped from it) the latest snapshot is the last item that
\* was accepted into that queue.
DrainedLatestIsLastAccepted ==
    /\ (/\ tickCount.lastTick # NoTick
        /\ marketDataQueue = <<>>
        /\ \A w \in Workers : worker[w].data = NoTick)
           => latestMarketData = tickCount.lastTick
    /\ (/\ tickCount.lastBook # NoBook
        /\ orderBookQueue = <<>>
        /\ \A w \in Workers : worker[w].orderBook = NoBook)
           => latestOrderBook = tickCount.lastBook

\* C39: every latency sample the quality tracker holds for an accepted push
\* lies between 0 and 60 000 ms; an item whose timestamp is later than the
\* current time is not accepted, so no negative latency is recorded.
RecordedLatencyWithinFreshness ==
    \A source \in MarketSources :
        \A i \in 1..Len(qualityTracker[source].latencyHistory) :
            /\ qualityTracker[source].latencyHistory[i] >= 0
            /\ qualityTracker[source].latencyHistory[i] <= FreshnessSeconds * 1000

\* C40: in every state the latest market data and the latest order book,
\* which the accessors copy under dataMutex_, are each the initial default
\* or one whole item that passed validation and was dequeued by a worker:
\* a worker only ever takes the front item of a queue, and a latest value
\* only ever changes to the item held by a worker that is storing it with
\* dataMutex_ free for it to lock.
LatestIsDequeuedValidItem ==
    /\ [](/\ latestMarketData = NoTick \/ validateMarketData(latestMarketData)
          /\ latestOrderBook = NoBook \/ validateOrderBook(latestOrderBook))
    /\ [][/\ latestMarketData' # latestMarketData =>
                 /\ dataMutex = Free
                 /\ \E w \in Workers : /\ worker[w].pc = "md_store"
                                       /\ worker[w].data = latestMarketData'
                                       /\ dataMutex' = W(w)
          /\ latestOrderBook' # latestOrderBook =>
                 /\ dataMutex = Free
                 /\ \E w \in Workers : /\ worker[w].pc = "ob_store"
                                       /\ worker[w].orderBook = latestOrderBook'
                                       /\ dataMutex' = W(w)
          /\ \A w \in Workers :
                 /\ worker'[w].data \notin {NoTick, worker[w].data} =>
                        /\ marketDataQueue # <<>>
                        /\ worker'[w].data = Head(marketDataQueue)
                        /\ marketDataQueue' = Tail(marketDataQueue)
                 /\ worker'[w].orderBook \notin {NoBook, worker[w].orderBook} =>
                        /\ orderBookQueue # <<>>
                        /\ worker'[w].orderBook = Head(orderBookQueue)
                        /\ orderBookQueue' = Tail(orderBookQueue)
         ]_vars

\* C40 witness: a stale tick was rejected, a tick was evicted from the full
\* queue before the worker came to it, and the latest market data is the
\* tick that was processed.
LatestAfterRejectionAndEviction ==
    /\ latestMarketData = TickB
    /\ tickCount.dropped >= 1
    /\ qualityTracker["Binance"].rejectedDataPoints >= 1
    /\ marketDataQueue = <<>>
    /\ \A w \in Workers : worker[w].data = NoTick

====
